---- MODULE Spec2Model ----
(***************************************************************************)
(* A model of src/app-builder/app-builder.py: the WizyVision schema        *)
(* validator (validate_generated_schema), the type contract registry it    *)
(* reads, and the generation-retry loop (generate_schema).                 *)
(*                                                                         *)
(* JSON values are tagged records, so that values of different Python      *)
(* types can be compared the way Python's == compares them:                *)
(*   None (also JSON null), str, bool, int, float, list, dict.             *)
(* A dict is a sequence of <<key, value>> pairs with distinct keys, which  *)
(* keeps Python's insertion (iteration) order.                             *)
(***************************************************************************)
EXTENDS Integers, Sequences, FiniteSets, TLC

VARIABLES
    \* ---- one call of validate_generated_schema ----
    schema,      \* the argument of the call
    vpc,         \* "call" before the call, "returned" after it
    vresult,     \* what the call returned (NoResult before it returns)
    registry,    \* the module's globals WV_ALLOWED_TYPES, WV_TYPE_DESCRIPTIONS
                 \* and TYPE_CONTRACTS
    \* ---- one call of generate_schema ----
    pc,          \* the position in generate_schema
    max_retries, \* its argument
    attempt,     \* the loop variable of "for attempt in range(max_retries)"
    ret,         \* what the call returned (NoReturn before it returns)
    log,         \* the completion calls made so far, with their outcomes
    sleeps       \* the time.sleep(1) calls made so far, with their causes

vvars == <<schema, vpc, vresult, registry>>
gvars == <<pc, max_retries, attempt, ret, log, sleeps>>
vars == <<schema, vpc, vresult, registry,
          pc, max_retries, attempt, ret, log, sleeps>>

\* ------------------------------------------------------------------ bounds

\* The longest property map of a document given to the validator.
MaxProps == 2
\* The largest max_retries a caller passes to generate_schema.
MaxRetries == 3

\* ------------------------------------------------------------- JSON values

None == [k |-> "none"]
JStr(s) == [k |-> "str", s |-> s]
JBool(b) == [k |-> "bool", b |-> b]
JNum(n) == [k |-> "num", n |-> n]
\* A float is kept by its decimal value, mant * 10^exp with mant no multiple
\* of 10 (zero has exp 0), and its sign (0.0 and -0.0 differ in it); nan and
\* the infinities by name: the digits repr() writes for it. FloatOf gives
\* the float a literal denotes.
JFloat(neg, mant, exp) ==
    [k |-> "float", sp |-> "", neg |-> neg, mant |-> mant, exp |-> exp]
JNaN == [k |-> "float", sp |-> "nan", neg |-> FALSE, mant |-> 0, exp |-> 0]
JInf(neg) == [k |-> "float", sp |-> "inf", neg |-> neg, mant |-> 0, exp |-> 0]
JArr(a) == [k |-> "arr", a |-> a]
JObj(o) == [k |-> "obj", o |-> o]

\* isinstance(v, dict), isinstance(v, list)
IsDict(v) == v.k = "obj"
IsList(v) == v.k = "arr"

\* key in d
HasKey(d, key) == \E i \in 1..Len(d.o) : d.o[i][1] = key
\* d.get(key, default)
GetOr(d, key, default) ==
    IF HasKey(d, key)
    THEN d.o[CHOOSE i \in 1..Len(d.o) : d.o[i][1] = key][2]
    ELSE default
\* d.get(key)
Get(d, key) == GetOr(d, key, None)
\* v in lst, for a list of JSON values
InList(v, lst) == \E i \in 1..Len(lst.a) : lst.a[i] = v

\* type(v).__name__, as it appears in an AttributeError's text
PyTypeName(v) ==
    CASE v.k = "bool" -> "bool"
      [] v.k = "str" -> "str"
      [] v.k = "num" -> "int"
      [] v.k = "float" -> "float"
      [] v.k = "arr" -> "list"
      [] v.k = "obj" -> "dict"
      [] v.k = "none" -> "NoneType"

\* sep.join(strs), a half of strs at a time
RECURSIVE Join(_, _)
Join(sep, strs) ==
    IF Len(strs) = 0 THEN ""
    ELSE IF Len(strs) = 1 THEN strs[1]
    ELSE Join(sep, SubSeq(strs, 1, Len(strs) \div 2)) \o sep
         \o Join(sep, SubSeq(strs, Len(strs) \div 2 + 1, Len(strs)))

\* ", ".join(lst) for a list of JSON strings
JoinJ(sep, lst) == Join(sep, [i \in 1..Len(lst.a) |-> lst.a[i].s])

\* ------------------------------------------------------ characters and strs

\* A str is written as a string of this notation, character by character:
\* a printable ASCII character as itself, but for "<" and the grave accent;
\* the tab, the newline, the form feed and the carriage return as "\t",
\* "\n", "\f" and "\r"; every other code point, "<" (U+003C) and the grave
\* accent (U+0060) among them, by its name "<U+XXXX>", XXXX being the code
\* point in upper-case hexadecimal digits, four at least. So a "<" always
\* opens a name, the next ">" closes it, and two strs are written alike only
\* when they are the same str.

\* The value of a decimal and of a hexadecimal digit.
Digits == {"0", "1", "2", "3", "4", "5", "6", "7", "8", "9"}
DigitValue(c) == CHOOSE d \in 0..9 : ToString(d) = c
HexValue(c) ==
    IF c \in Digits THEN DigitValue(c)
    ELSE CHOOSE d \in 10..15 :
             c \in {SubSeq("ABCDEF", d - 9, d - 9), SubSeq("abcdef", d - 9, d - 9)}

\* The number n in base 16 with the sixteen digits given, width digits at
\* least.
RECURSIVE Hex(_, _, _)
Hex(n, width, digits) ==
    IF n = 0 /\ width <= 0 THEN ""
    ELSE Hex(n \div 16, width - 1, digits) \o SubSeq(digits, (n % 16) + 1, (n % 16) + 1)

\* chr(code), and ord(c): the number that the digits of the name write, six
\* at most, the k-th from the right being digit(k).
Chr(code) ==
    CASE code = 9 -> "\t"
      [] code = 10 -> "\n"
      [] code = 12 -> "\f"
      [] code = 13 -> "\r"
      [] code >= 32 /\ code <= 126 /\ code # 60 /\ code # 96 ->
            SubSeq(" !\"#$%&'()*+,-./0123456789:;<=>?@ABCDEFGHIJKLMNOPQRSTUVWXYZ[\\]^_ abcdefghijklmnopqrstuvwxyz{|}~",
                   code - 31, code - 31)
      [] OTHER -> "<U+" \o Hex(code, 4, "0123456789ABCDEF") \o ">"
Ord(c) ==
    LET digit(k) == IF k > Len(c) - 4 THEN 0
                    ELSE HexValue(SubSeq(c, Len(c) - k, Len(c) - k))
    IN  IF Len(c) > 1
        THEN digit(1) + 16 * digit(2) + 256 * digit(3) + 4096 * digit(4)
             + 65536 * digit(5) + 1048576 * digit(6)
        ELSE CHOOSE code \in {9, 10, 12, 13} \cup (32..126) : Chr(code) = c

\* The characters of a str, one element each: those before the first name,
\* the name, and the characters of the rest.
RECURSIVE Chars(_)
Chars(s) ==
    IF \A i \in 1..Len(s) : SubSeq(s, i, i) # "<"
    THEN [i \in 1..Len(s) |-> SubSeq(s, i, i)]
    ELSE LET open == CHOOSE i \in 1..Len(s) :
                         SubSeq(s, i, i) = "<" /\ \A j \in 1..(i - 1) : SubSeq(s, j, j) # "<"
             close == CHOOSE i \in open..Len(s) :
                          SubSeq(s, i, i) = ">" /\ \A j \in open..(i - 1) : SubSeq(s, j, j) # ">"
         IN  [i \in 1..(open - 1) |-> SubSeq(s, i, i)] \o << SubSeq(s, open, close) >>
             \o Chars(SubSeq(s, close + 1, Len(s)))

\* The code points for which str.isprintable() does not hold, in ranges:
\* the table of Python 3.11 (Unicode 14), which repr reads.
NonPrintable ==
    << <<0, 31>>, <<127, 160>>, <<173, 173>>, <<888, 889>>, <<896, 899>>, <<907, 907>>,
       <<909, 909>>, <<930, 930>>, <<1328, 1328>>, <<1367, 1368>>, <<1419, 1420>>,
       <<1424, 1424>>, <<1480, 1487>>, <<1515, 1518>>, <<1525, 1541>>, <<1564, 1564>>,
       <<1757, 1757>>, <<1806, 1807>>, <<1867, 1868>>, <<1970, 1983>>, <<2043, 2044>>,
       <<2094, 2095>>, <<2111, 2111>>, <<2140, 2141>>, <<2143, 2143>>, <<2155, 2159>>,
       <<2191, 2199>>, <<2274, 2274>>, <<2436, 2436>>, <<2445, 2446>>, <<2449, 2450>>,
       <<2473, 2473>>, <<2481, 2481>>, <<2483, 2485>>, <<2490, 2491>>, <<2501, 2502>>,
       <<2505, 2506>>, <<2511, 2518>>, <<2520, 2523>>, <<2526, 2526>>, <<2532, 2533>>,
       <<2559, 2560>>, <<2564, 2564>>, <<2571, 2574>>, <<2577, 2578>>, <<2601, 2601>>,
       <<2609, 2609>>, <<2612, 2612>>, <<2615, 2615>>, <<2618, 2619>>, <<2621, 2621>>,
       <<2627, 2630>>, <<2633, 2634>>, <<2638, 2640>>, <<2642, 2648>>, <<2653, 2653>>,
       <<2655, 2661>>, <<2679, 2688>>, <<2692, 2692>>, <<2702, 2702>>, <<2706, 2706>>,
       <<2729, 2729>>, <<2737, 2737>>, <<2740, 2740>>, <<2746, 2747>>, <<2758, 2758>>,
       <<2762, 2762>>, <<2766, 2767>>, <<2769, 2783>>, <<2788, 2789>>, <<2802, 2808>>,
       <<2816, 2816>>, <<2820, 2820>>, <<2829, 2830>>, <<2833, 2834>>, <<2857, 2857>>,
       <<2865, 2865>>, <<2868, 2868>>, <<2874, 2875>>, <<2885, 2886>>, <<2889, 2890>>,
       <<2894, 2900>>, <<2904, 2907>>, <<2910, 2910>>, <<2916, 2917>>, <<2936, 2945>>,
       <<2948, 2948>>, <<2955, 2957>>, <<2961, 2961>>, <<2966, 2968>>, <<2971, 2971>>,
       <<2973, 2973>>, <<2976, 2978>>, <<2981, 2983>>, <<2987, 2989>>, <<3002, 3005>>,
       <<3011, 3013>>, <<3017, 3017>>, <<3022, 3023>>, <<3025, 3030>>, <<3032, 3045>>,
       <<3067, 3071>>, <<3085, 3085>>, <<3089, 3089>>, <<3113, 3113>>, <<3130, 3131>>,
       <<3141, 3141>>, <<3145, 3145>>, <<3150, 3156>>, <<3159, 3159>>, <<3163, 3164>>,
       <<3166, 3167>>, <<3172, 3173>>, <<3184, 3190>>, <<3213, 3213>>, <<3217, 3217>>,
       <<3241, 3241>>, <<3252, 3252>>, <<3258, 3259>>, <<3269, 3269>>, <<3273, 3273>>,
       <<3278, 3284>>, <<3287, 3292>>, <<3295, 3295>>, <<3300, 3301>>, <<3312, 3312>>,
       <<3315, 3327>>, <<3341, 3341>>, <<3345, 3345>>, <<3397, 3397>>, <<3401, 3401>>,
       <<3408, 3411>>, <<3428, 3429>>, <<3456, 3456>>, <<3460, 3460>>, <<3479, 3481>>,
       <<3506, 3506>>, <<3516, 3516>>, <<3518, 3519>>, <<3527, 3529>>, <<3531, 3534>>,
       <<3541, 3541>>, <<3543, 3543>>, <<3552, 3557>>, <<3568, 3569>>, <<3573, 3584>>,
       <<3643, 3646>>, <<3676, 3712>>, <<3715, 3715>>, <<3717, 3717>>, <<3723, 3723>>,
       <<3748, 3748>>, <<3750, 3750>>, <<3774, 3775>>, <<3781, 3781>>, <<3783, 3783>>,
       <<3790, 3791>>, <<3802, 3803>>, <<3808, 3839>>, <<3912, 3912>>, <<3949, 3952>>,
       <<3992, 3992>>, <<4029, 4029>>, <<4045, 4045>>, <<4059, 4095>>, <<4294, 4294>>,
       <<4296, 4300>>, <<4302, 4303>>, <<4681, 4681>>, <<4686, 4687>>, <<4695, 4695>>,
       <<4697, 4697>>, <<4702, 4703>>, <<4745, 4745>>, <<4750, 4751>>, <<4785, 4785>>,
       <<4790, 4791>>, <<4799, 4799>>, <<4801, 4801>>, <<4806, 4807>>, <<4823, 4823>>,
       <<4881, 4881>>, <<4886, 4887>>, <<4955, 4956>>, <<4989, 4991>>, <<5018, 5023>>,
       <<5110, 5111>>, <<5118, 5119>>, <<5760, 5760>>, <<5789, 5791>>, <<5881, 5887>>,
       <<5910, 5918>>, <<5943, 5951>>, <<5972, 5983>>, <<5997, 5997>>, <<6001, 6001>>,
       <<6004, 6015>>, <<6110, 6111>>, <<6122, 6127>>, <<6138, 6143>>, <<6158, 6158>>,
       <<6170, 6175>>, <<6265, 6271>>, <<6315, 6319>>, <<6390, 6399>>, <<6431, 6431>>,
       <<6444, 6447>>, <<6460, 6463>>, <<6465, 6467>>, <<6510, 6511>>, <<6517, 6527>>,
       <<6572, 6575>>, <<6602, 6607>>, <<6619, 6621>>, <<6684, 6685>>, <<6751, 6751>>,
       <<6781, 6782>>, <<6794, 6799>>, <<6810, 6815>>, <<6830, 6831>>, <<6863, 6911>>,
       <<6989, 6991>>, <<7039, 7039>>, <<7156, 7163>>, <<7224, 7226>>, <<7242, 7244>>,
       <<7305, 7311>>, <<7355, 7356>>, <<7368, 7375>>, <<7419, 7423>>, <<7958, 7959>>,
       <<7966, 7967>>, <<8006, 8007>>, <<8014, 8015>>, <<8024, 8024>>, <<8026, 8026>>,
       <<8028, 8028>>, <<8030, 8030>>, <<8062, 8063>>, <<8117, 8117>>, <<8133, 8133>>,
       <<8148, 8149>>, <<8156, 8156>>, <<8176, 8177>>, <<8181, 8181>>, <<8191, 8207>>,
       <<8232, 8239>>, <<8287, 8303>>, <<8306, 8307>>, <<8335, 8335>>, <<8349, 8351>>,
       <<8385, 8399>>, <<8433, 8447>>, <<8588, 8591>>, <<9255, 9279>>, <<9291, 9311>>,
       <<11124, 11125>>, <<11158, 11158>>, <<11508, 11512>>, <<11558, 11558>>,
       <<11560, 11564>>, <<11566, 11567>>, <<11624, 11630>>, <<11633, 11646>>,
       <<11671, 11679>>, <<11687, 11687>>, <<11695, 11695>>, <<11703, 11703>>,
       <<11711, 11711>>, <<11719, 11719>>, <<11727, 11727>>, <<11735, 11735>>,
       <<11743, 11743>>, <<11870, 11903>>, <<11930, 11930>>, <<12020, 12031>>,
       <<12246, 12271>>, <<12284, 12288>>, <<12352, 12352>>, <<12439, 12440>>,
       <<12544, 12548>>, <<12592, 12592>>, <<12687, 12687>>, <<12772, 12783>>,
       <<12831, 12831>>, <<42125, 42127>>, <<42183, 42191>>, <<42540, 42559>>,
       <<42744, 42751>>, <<42955, 42959>>, <<42962, 42962>>, <<42964, 42964>>,
       <<42970, 42993>>, <<43053, 43055>>, <<43066, 43071>>, <<43128, 43135>>,
       <<43206, 43213>>, <<43226, 43231>>, <<43348, 43358>>, <<43389, 43391>>,
       <<43470, 43470>>, <<43482, 43485>>, <<43519, 43519>>, <<43575, 43583>>,
       <<43598, 43599>>, <<43610, 43611>>, <<43715, 43738>>, <<43767, 43776>>,
       <<43783, 43784>>, <<43791, 43792>>, <<43799, 43807>>, <<43815, 43815>>,
       <<43823, 43823>>, <<43884, 43887>>, <<44014, 44015>>, <<44026, 44031>>,
       <<55204, 55215>>, <<55239, 55242>>, <<55292, 63743>>, <<64110, 64111>>,
       <<64218, 64255>>, <<64263, 64274>>, <<64280, 64284>>, <<64311, 64311>>,
       <<64317, 64317>>, <<64319, 64319>>, <<64322, 64322>>, <<64325, 64325>>,
       <<64451, 64466>>, <<64912, 64913>>, <<64968, 64974>>, <<64976, 65007>>,
       <<65050, 65055>>, <<65107, 65107>>, <<65127, 65127>>, <<65132, 65135>>,
       <<65141, 65141>>, <<65277, 65280>>, <<65471, 65473>>, <<65480, 65481>>,
       <<65488, 65489>>, <<65496, 65497>>, <<65501, 65503>>, <<65511, 65511>>,
       <<65519, 65531>>, <<65534, 65535>>, <<65548, 65548>>, <<65575, 65575>>,
       <<65595, 65595>>, <<65598, 65598>>, <<65614, 65615>>, <<65630, 65663>>,
       <<65787, 65791>>, <<65795, 65798>>, <<65844, 65846>>, <<65935, 65935>>,
       <<65949, 65951>>, <<65953, 65999>>, <<66046, 66175>>, <<66205, 66207>>,
       <<66257, 66271>>, <<66300, 66303>>, <<66340, 66348>>, <<66379, 66383>>,
       <<66427, 66431>>, <<66462, 66462>>, <<66500, 66503>>, <<66518, 66559>>,
       <<66718, 66719>>, <<66730, 66735>>, <<66772, 66775>>, <<66812, 66815>>,
       <<66856, 66863>>, <<66916, 66926>>, <<66939, 66939>>, <<66955, 66955>>,
       <<66963, 66963>>, <<66966, 66966>>, <<66978, 66978>>, <<66994, 66994>>,
       <<67002, 67002>>, <<67005, 67071>>, <<67383, 67391>>, <<67414, 67423>>,
       <<67432, 67455>>, <<67462, 67462>>, <<67505, 67505>>, <<67515, 67583>>,
       <<67590, 67591>>, <<67593, 67593>>, <<67638, 67638>>, <<67641, 67643>>,
       <<67645, 67646>>, <<67670, 67670>>, <<67743, 67750>>, <<67760, 67807>>,
       <<67827, 67827>>, <<67830, 67834>>, <<67868, 67870>>, <<67898, 67902>>,
       <<67904, 67967>>, <<68024, 68027>>, <<68048, 68049>>, <<68100, 68100>>,
       <<68103, 68107>>, <<68116, 68116>>, <<68120, 68120>>, <<68150, 68151>>,
       <<68155, 68158>>, <<68169, 68175>>, <<68185, 68191>>, <<68256, 68287>>,
       <<68327, 68330>>, <<68343, 68351>>, <<68406, 68408>>, <<68438, 68439>>,
       <<68467, 68471>>, <<68498, 68504>>, <<68509, 68520>>, <<68528, 68607>>,
       <<68681, 68735>>, <<68787, 68799>>, <<68851, 68857>>, <<68904, 68911>>,
       <<68922, 69215>>, <<69247, 69247>>, <<69290, 69290>>, <<69294, 69295>>,
       <<69298, 69375>>, <<69416, 69423>>, <<69466, 69487>>, <<69514, 69551>>,
       <<69580, 69599>>, <<69623, 69631>>, <<69710, 69713>>, <<69750, 69758>>,
       <<69821, 69821>>, <<69827, 69839>>, <<69865, 69871>>, <<69882, 69887>>,
       <<69941, 69941>>, <<69960, 69967>>, <<70007, 70015>>, <<70112, 70112>>,
       <<70133, 70143>>, <<70162, 70162>>, <<70207, 70271>>, <<70279, 70279>>,
       <<70281, 70281>>, <<70286, 70286>>, <<70302, 70302>>, <<70314, 70319>>,
       <<70379, 70383>>, <<70394, 70399>>, <<70404, 70404>>, <<70413, 70414>>,
       <<70417, 70418>>, <<70441, 70441>>, <<70449, 70449>>, <<70452, 70452>>,
       <<70458, 70458>>, <<70469, 70470>>, <<70473, 70474>>, <<70478, 70479>>,
       <<70481, 70486>>, <<70488, 70492>>, <<70500, 70501>>, <<70509, 70511>>,
       <<70517, 70655>>, <<70748, 70748>>, <<70754, 70783>>, <<70856, 70863>>,
       <<70874, 71039>>, <<71094, 71095>>, <<71134, 71167>>, <<71237, 71247>>,
       <<71258, 71263>>, <<71277, 71295>>, <<71354, 71359>>, <<71370, 71423>>,
       <<71451, 71452>>, <<71468, 71471>>, <<71495, 71679>>, <<71740, 71839>>,
       <<71923, 71934>>, <<71943, 71944>>, <<71946, 71947>>, <<71956, 71956>>,
       <<71959, 71959>>, <<71990, 71990>>, <<71993, 71994>>, <<72007, 72015>>,
       <<72026, 72095>>, <<72104, 72105>>, <<72152, 72153>>, <<72165, 72191>>,
       <<72264, 72271>>, <<72355, 72367>>, <<72441, 72703>>, <<72713, 72713>>,
       <<72759, 72759>>, <<72774, 72783>>, <<72813, 72815>>, <<72848, 72849>>,
       <<72872, 72872>>, <<72887, 72959>>, <<72967, 72967>>, <<72970, 72970>>,
       <<73015, 73017>>, <<73019, 73019>>, <<73022, 73022>>, <<73032, 73039>>,
       <<73050, 73055>>, <<73062, 73062>>, <<73065, 73065>>, <<73103, 73103>>,
       <<73106, 73106>>, <<73113, 73119>>, <<73130, 73439>>, <<73465, 73647>>,
       <<73649, 73663>>, <<73714, 73726>>, <<74650, 74751>>, <<74863, 74863>>,
       <<74869, 74879>>, <<75076, 77711>>, <<77811, 77823>>, <<78895, 82943>>,
       <<83527, 92159>>, <<92729, 92735>>, <<92767, 92767>>, <<92778, 92781>>,
       <<92863, 92863>>, <<92874, 92879>>, <<92910, 92911>>, <<92918, 92927>>,
       <<92998, 93007>>, <<93018, 93018>>, <<93026, 93026>>, <<93048, 93052>>,
       <<93072, 93759>>, <<93851, 93951>>, <<94027, 94030>>, <<94088, 94094>>,
       <<94112, 94175>>, <<94181, 94191>>, <<94194, 94207>>, <<100344, 100351>>,
       <<101590, 101631>>, <<101641, 110575>>, <<110580, 110580>>, <<110588, 110588>>,
       <<110591, 110591>>, <<110883, 110927>>, <<110931, 110947>>, <<110952, 110959>>,
       <<111356, 113663>>, <<113771, 113775>>, <<113789, 113791>>, <<113801, 113807>>,
       <<113818, 113819>>, <<113824, 118527>>, <<118574, 118575>>, <<118599, 118607>>,
       <<118724, 118783>>, <<119030, 119039>>, <<119079, 119080>>, <<119155, 119162>>,
       <<119275, 119295>>, <<119366, 119519>>, <<119540, 119551>>, <<119639, 119647>>,
       <<119673, 119807>>, <<119893, 119893>>, <<119965, 119965>>, <<119968, 119969>>,
       <<119971, 119972>>, <<119975, 119976>>, <<119981, 119981>>, <<119994, 119994>>,
       <<119996, 119996>>, <<120004, 120004>>, <<120070, 120070>>, <<120075, 120076>>,
       <<120085, 120085>>, <<120093, 120093>>, <<120122, 120122>>, <<120127, 120127>>,
       <<120133, 120133>>, <<120135, 120137>>, <<120145, 120145>>, <<120486, 120487>>,
       <<120780, 120781>>, <<121484, 121498>>, <<121504, 121504>>, <<121520, 122623>>,
       <<122655, 122879>>, <<122887, 122887>>, <<122905, 122906>>, <<122914, 122914>>,
       <<122917, 122917>>, <<122923, 123135>>, <<123181, 123183>>, <<123198, 123199>>,
       <<123210, 123213>>, <<123216, 123535>>, <<123567, 123583>>, <<123642, 123646>>,
       <<123648, 124895>>, <<124903, 124903>>, <<124908, 124908>>, <<124911, 124911>>,
       <<124927, 124927>>, <<125125, 125126>>, <<125143, 125183>>, <<125260, 125263>>,
       <<125274, 125277>>, <<125280, 126064>>, <<126133, 126208>>, <<126270, 126463>>,
       <<126468, 126468>>, <<126496, 126496>>, <<126499, 126499>>, <<126501, 126502>>,
       <<126504, 126504>>, <<126515, 126515>>, <<126520, 126520>>, <<126522, 126522>>,
       <<126524, 126529>>, <<126531, 126534>>, <<126536, 126536>>, <<126538, 126538>>,
       <<126540, 126540>>, <<126544, 126544>>, <<126547, 126547>>, <<126549, 126550>>,
       <<126552, 126552>>, <<126554, 126554>>, <<126556, 126556>>, <<126558, 126558>>,
       <<126560, 126560>>, <<126563, 126563>>, <<126565, 126566>>, <<126571, 126571>>,
       <<126579, 126579>>, <<126584, 126584>>, <<126589, 126589>>, <<126591, 126591>>,
       <<126602, 126602>>, <<126620, 126624>>, <<126628, 126628>>, <<126634, 126634>>,
       <<126652, 126703>>, <<126706, 126975>>, <<127020, 127023>>, <<127124, 127135>>,
       <<127151, 127152>>, <<127168, 127168>>, <<127184, 127184>>, <<127222, 127231>>,
       <<127406, 127461>>, <<127491, 127503>>, <<127548, 127551>>, <<127561, 127567>>,
       <<127570, 127583>>, <<127590, 127743>>, <<128728, 128732>>, <<128749, 128751>>,
       <<128765, 128767>>, <<128884, 128895>>, <<128985, 128991>>, <<129004, 129007>>,
       <<129009, 129023>>, <<129036, 129039>>, <<129096, 129103>>, <<129114, 129119>>,
       <<129160, 129167>>, <<129198, 129199>>, <<129202, 129279>>, <<129620, 129631>>,
       <<129646, 129647>>, <<129653, 129655>>, <<129661, 129663>>, <<129671, 129679>>,
       <<129709, 129711>>, <<129723, 129727>>, <<129734, 129743>>, <<129754, 129759>>,
       <<129768, 129775>>, <<129783, 129791>>, <<129939, 129939>>, <<129995, 130031>>,
       <<130042, 131071>>, <<173792, 173823>>, <<177977, 177983>>, <<178206, 178207>>,
       <<183970, 183983>>, <<191457, 194559>>, <<195102, 196607>>, <<201547, 917759>>,
       <<918000, 1114111>> >>

\* chr(code).isprintable()
IsPrintable(code) ==
    \A k \in 1..Len(NonPrintable) : code < NonPrintable[k][1] \/ code > NonPrintable[k][2]

\* c * n
RECURSIVE Repeat(_, _)
Repeat(c, n) == IF n <= 0 THEN "" ELSE c \o Repeat(c, n - 1)

\* repr(s) of a str: single quotes, unless it holds a single quote and no
\* double quote; the backslash and the quote are escaped, the newline, the
\* tab and the carriage return written \n, \t, \r, and every other character
\* that is not printable by its code point in lower-case hexadecimal digits:
\* \xXX, \uXXXX from U+0100 on, \UXXXXXXXX from U+10000 on. (A character
\* written as itself is a printable one, but for the form feed.)
ReprChar(c, quote) ==
    CASE c = "\\" -> "\\\\"
      [] c = quote -> "\\" \o quote
      [] c = "\n" -> "\\n"
      [] c = "\t" -> "\\t"
      [] c = "\r" -> "\\r"
      [] OTHER ->
            IF (Len(c) = 1 /\ c # "\f") \/ IsPrintable(Ord(c)) THEN c
            ELSE IF Ord(c) < 256 THEN "\\x" \o Hex(Ord(c), 2, "0123456789abcdef")
            ELSE IF Ord(c) < 65536 THEN "\\u" \o Hex(Ord(c), 4, "0123456789abcdef")
            ELSE "\\U" \o Hex(Ord(c), 8, "0123456789abcdef")
StrRepr(s) ==
    LET cs == Chars(s)
        quote == IF (\E i \in 1..Len(cs) : cs[i] = "'")
                    /\ ~(\E i \in 1..Len(cs) : cs[i] = "\"")
                 THEN "\"" ELSE "'"
    IN  quote \o Join("", [i \in 1..Len(cs) |-> ReprChar(cs[i], quote)]) \o quote

\* repr(x) of a float: the digits of its decimal value, with an exponent
\* when the decimal point is more than 16 places right of the first digit or
\* more than 3 places left of it.
FloatRepr(v) ==
    IF v.sp = "nan" THEN "nan"
    ELSE IF v.sp = "inf" THEN (IF v.neg THEN "-inf" ELSE "inf")
    ELSE LET digits == ToString(v.mant)
             n == Len(digits)
             decpt == n + v.exp
             e == decpt - 1
             abs_e == IF e < 0 THEN -e ELSE e
             body ==
                 IF v.mant = 0 THEN "0.0"
                 ELSE IF decpt <= -4 \/ decpt > 16
                 THEN SubSeq(digits, 1, 1)
                      \o (IF n > 1 THEN "." \o SubSeq(digits, 2, n) ELSE "")
                      \o "e" \o (IF e < 0 THEN "-" ELSE "+")
                      \o (IF abs_e < 10 THEN "0" ELSE "") \o ToString(abs_e)
                 ELSE IF decpt <= 0 THEN "0." \o Repeat("0", -decpt) \o digits
                 ELSE IF decpt >= n THEN digits \o Repeat("0", decpt - n) \o ".0"
                 ELSE SubSeq(digits, 1, decpt) \o "." \o SubSeq(digits, decpt + 1, n)
         IN  (IF v.neg THEN "-" ELSE "") \o body

\* repr(v)
RECURSIVE PyRepr(_)
PyRepr(v) ==
    CASE v.k = "none" -> "None"
      [] v.k = "str" -> StrRepr(v.s)
      [] v.k = "bool" -> (IF v.b THEN "True" ELSE "False")
      [] v.k = "num" -> ToString(v.n)
      [] v.k = "float" -> FloatRepr(v)
      [] v.k = "arr" ->
            "[" \o Join(", ", [i \in 1..Len(v.a) |-> PyRepr(v.a[i])]) \o "]"
      [] v.k = "obj" ->
            "{" \o Join(", ", [i \in 1..Len(v.o) |->
                                  StrRepr(v.o[i][1]) \o ": " \o PyRepr(v.o[i][2])])
                \o "}"

\* str(v), as an f-string writes v: a str as it is, any other value by its
\* repr.
PyStr(v) == IF v.k = "str" THEN v.s ELSE PyRepr(v)

\* ------------------------------------------------------------ the registry

WV_ALLOWED_TYPES ==
    << "Toggle", "Checkbox", "Date", "Number", "Location", "Dropdown",
       "Text", "Paragraph", "People", "People List", "Signature Field" >>

StringSchema == JObj(<< <<"type", JStr("string")>> >>)
NumberSchema == JObj(<< <<"type", JStr("number")>> >>)

LocationProperties ==
    JObj(<< <<"latitude", NumberSchema>>,
            <<"longitude", NumberSchema>>,
            <<"label", StringSchema>> >>)

LatLon == JArr(<< JStr("latitude"), JStr("longitude") >>)

TYPE_CONTRACTS ==
    ("Toggle" :> JObj(<< <<"type", JStr("boolean")>> >>))
 @@ ("Checkbox" :> JObj(<< <<"type", JStr("array")>>, <<"items", StringSchema>> >>))
 @@ ("Date" :> JObj(<< <<"type", JStr("string")>>,
                       <<"format_in", JArr(<< JStr("date"), JStr("date-time") >>)>> >>))
 @@ ("Number" :> JObj(<< <<"type_in", JArr(<< JStr("number"), JStr("integer") >>)>> >>))
 @@ ("Location" :> JObj(<< <<"type", JStr("object")>>,
                           <<"required", LatLon>>,
                           <<"properties", LocationProperties>> >>))
 @@ ("Dropdown" :> JObj(<< <<"type", JStr("string")>>, <<"requires_enum", JBool(TRUE)>> >>))
 @@ ("Text" :> JObj(<< <<"type", JStr("string")>> >>))
 @@ ("Paragraph" :> JObj(<< <<"type", JStr("string")>> >>))
 @@ ("People" :> JObj(<< <<"type", JStr("string")>> >>))
 @@ ("People List" :> JObj(<< <<"type", JStr("array")>>, <<"items", StringSchema>> >>))
 @@ ("Signature Field" :> JObj(<< <<"type", JStr("string")>> >>))

\* The descriptions the help output prints, one per tag.
WV_TYPE_DESCRIPTIONS ==
    ("Toggle" :> "A boolean switch (yes/no)")
 @@ ("Checkbox" :> "Multi-select from a list of defined values (array of enum strings)")
 @@ ("Date" :> "Date or date-time string")
 @@ ("Number" :> "Numeric value")
 @@ ("Location" :> "Geolocation object with latitude/longitude")
 @@ ("Dropdown" :> "Single selection from a list of defined values (enum string)")
 @@ ("Text" :> "Single-line text")
 @@ ("Paragraph" :> "Multi-line text")
 @@ ("People" :> "Single user selection (userId string)")
 @@ ("People List" :> "Multiple user selection (array of userId strings)")
 @@ ("Signature Field" :> "Signature data (string). If unsupported, treat as optional")

\* A variant of the globals in which the last tag has no contract.
RegistryWithoutLastContract ==
    [WV_ALLOWED_TYPES |-> WV_ALLOWED_TYPES,
     WV_TYPE_DESCRIPTIONS |-> WV_TYPE_DESCRIPTIONS,
     TYPE_CONTRACTS |-> [t \in DOMAIN TYPE_CONTRACTS \ {"Signature Field"}
                            |-> TYPE_CONTRACTS[t]]]

\* The globals as the module's top level leaves them; no statement of the
\* module assigns to them, or through them, afterwards.
Registry ==
    [WV_ALLOWED_TYPES |-> WV_ALLOWED_TYPES,
     WV_TYPE_DESCRIPTIONS |-> WV_TYPE_DESCRIPTIONS,
     TYPE_CONTRACTS |-> TYPE_CONTRACTS]

\* x_type not in WV_ALLOWED_TYPES (list membership by ==), on the global as
\* it is at the time of the call
InAllowedTypes(x_type) ==
    /\ x_type.k = "str"
    /\ \E i \in 1..Len(registry.WV_ALLOWED_TYPES) :
          registry.WV_ALLOWED_TYPES[i] = x_type.s

\* TYPE_CONTRACTS.get(x_type, {}), on the global as it is at the time of the
\* call
ContractOf(x_type) ==
    IF x_type \in DOMAIN registry.TYPE_CONTRACTS
    THEN registry.TYPE_CONTRACTS[x_type]
    ELSE JObj(<<>>)

\* ------------------------------------- jsonschema.Draft7Validator.check_schema

\* The Draft 7 meta-schema's simpleTypes.
SimpleTypes == {"array", "boolean", "integer", "null", "number", "object", "string"}

IsSimpleType(v) == v.k = "str" /\ v.s \in SimpleTypes

\* uniqueItems
IsUnique(a) == \A i, j \in 1..Len(a) : i # j => a[i] # a[j]

RECURSIVE IsDraft7Schema(_)

\* The types "number" and "integer" of Draft 7: a bool is neither, a float
\* with no fractional part is an integer.
IsNumber(v) == v.k \in {"num", "float"}
IsInteger(v) == v.k = "num" \/ (v.k = "float" /\ v.sp = "" /\ v.exp >= 0)
\* nonNegativeInteger: an integer, and not below 0
IsNonNegativeInteger(v) ==
    /\ IsInteger(v)
    /\ IF v.k = "num" THEN v.n >= 0 ELSE ~v.neg \/ v.mant = 0
\* exclusiveMinimum 0: refused when the number is <= 0, which nan is not
IsAboveZero(v) ==
    IF v.k = "num" THEN v.n > 0
    ELSE \/ v.sp = "nan"
         \/ v.sp = "inf" /\ ~v.neg
         \/ v.sp = "" /\ ~v.neg /\ v.mant > 0
\* stringArray: strings, no two the same
IsStringArray(v) ==
    /\ IsList(v)
    /\ \A i \in 1..Len(v.a) : v.a[i].k = "str"
    /\ IsUnique(v.a)
\* schemaArray: one schema or more
IsSchemaArray(v) ==
    /\ IsList(v)
    /\ Len(v.a) >= 1
    /\ \A i \in 1..Len(v.a) : IsDraft7Schema(v.a[i])
\* a mapping of names to schemas
IsSchemaMap(v) == IsDict(v) /\ \A i \in 1..Len(v.o) : IsDraft7Schema(v.o[i][2])

\* What the properties of the Draft 7 meta-schema ask of each keyword. A
\* keyword the meta-schema does not name ("x-wv-type") accepts any value, as
\* "default" and "const" do. The formats the meta-schema names (uri, regex)
\* are annotations here: check_schema asserts them only in some versions of
\* the library and with optional packages present.
KeywordOk(key, val) ==
    CASE key \in {"$id", "$schema", "$ref", "$comment", "title", "description",
                  "pattern", "format", "contentMediaType", "contentEncoding"} ->
            val.k = "str"
      [] key \in {"readOnly", "uniqueItems"} -> val.k = "bool"
      [] key \in {"examples", "enum"} -> IsList(val)
      [] key = "multipleOf" -> IsNumber(val) /\ IsAboveZero(val)
      [] key \in {"maximum", "exclusiveMaximum", "minimum", "exclusiveMinimum"} ->
            IsNumber(val)
      [] key \in {"maxLength", "minLength", "maxItems", "minItems",
                  "maxProperties", "minProperties"} ->
            IsNonNegativeInteger(val)
      [] key \in {"additionalItems", "contains", "additionalProperties",
                  "propertyNames", "if", "then", "else", "not"} ->
            IsDraft7Schema(val)
      [] key = "items" -> IsDraft7Schema(val) \/ IsSchemaArray(val)
      [] key \in {"allOf", "anyOf", "oneOf"} -> IsSchemaArray(val)
      [] key = "required" -> IsStringArray(val)
      [] key \in {"definitions", "properties", "patternProperties"} ->
            IsSchemaMap(val)
      [] key = "dependencies" ->
            /\ IsDict(val)
            /\ \A i \in 1..Len(val.o) :
                  IsDraft7Schema(val.o[i][2]) \/ IsStringArray(val.o[i][2])
      [] key = "type" ->
            \/ IsSimpleType(val)
            \/ /\ IsList(val)
               /\ Len(val.a) >= 1
               /\ \A i \in 1..Len(val.a) : IsSimpleType(val.a[i])
               /\ IsUnique(val.a)
      [] OTHER -> TRUE

\* A value the meta-schema accepts: a boolean, or a mapping whose keywords
\* are well formed.
IsDraft7Schema(v) ==
    \/ v.k = "bool"
    \/ /\ IsDict(v)
       /\ \A i \in 1..Len(v.o) : KeywordOk(v.o[i][1], v.o[i][2])

\* str(e) of the SchemaError check_schema raises: the library's text, which
\* depends on its version, stands as one token.
SchemaErrorStr == "<SchemaError>"

\* str(e) of the AttributeError of v.get(...) on a value that is no dict
AttributeErrorStr(v) == "'" \o PyTypeName(v) \o "' object has no attribute 'get'"

\* ------------------------------------------------ validate_generated_schema

\* A returned (is_valid, validation_message), with the violations the
\* message reports: the accumulated errors, or the one message of an early
\* return or of an exception handler.
Rejected(msg) ==
    [valid |-> FALSE, violations |-> <<msg>>, message |-> msg, raised |-> <<>>]

\* No return at all: an exception of class exc_type leaves the function.
Propagated(exc_type) ==
    [valid |-> FALSE, violations |-> <<>>, message |-> "", raised |-> exc_type]

\* The result before the call returns.
NoResult == [valid |-> FALSE, violations |-> <<>>, message |-> "", raised |-> <<>>]

\* An exception class is written as its __mro__: the names of the class and
\* of its bases, each with its module, the class first. <<>> stands where no
\* exception is raised.
Mro ==
    [JSONDecodeError |->
         << "json.decoder.JSONDecodeError", "builtins.ValueError", "builtins.Exception",
            "builtins.BaseException", "builtins.object" >>,
     ValueError |->
         << "builtins.ValueError", "builtins.Exception", "builtins.BaseException",
            "builtins.object" >>,
     RecursionError |->
         << "builtins.RecursionError", "builtins.RuntimeError", "builtins.Exception",
            "builtins.BaseException", "builtins.object" >>,
     AttributeError |->
         << "builtins.AttributeError", "builtins.Exception", "builtins.BaseException",
            "builtins.object" >>,
     SchemaError |->
         << "jsonschema.exceptions.SchemaError", "jsonschema.exceptions._Error",
            "builtins.Exception", "builtins.BaseException", "builtins.object" >>,
     ServiceUnavailable |->
         << "google.api_core.exceptions.ServiceUnavailable",
            "google.api_core.exceptions.ServerError",
            "google.api_core.exceptions.GoogleAPICallError",
            "google.api_core.exceptions.GoogleAPIError",
            "builtins.Exception", "builtins.BaseException", "builtins.object" >>,
     KeyboardInterrupt |->
         << "builtins.KeyboardInterrupt", "builtins.BaseException", "builtins.object" >>]

\* isinstance(e, class), for e of the class exc_type: what a clause
\* "except class" catches.
IsInstance(exc_type, class) == \E i \in 1..Len(exc_type) : exc_type[i] = class

\* isinstance(e, Exception)
IsException(exc_type) == IsInstance(exc_type, "builtins.Exception")

\* One constraint check of the loop body: the messages it appends to errors.
TypeCheck(prop_name, x_type, contract, declared_type) ==
    IF HasKey(contract, "type") /\ declared_type # Get(contract, "type")
    THEN << "'" \o prop_name \o "' with x-wv-type '" \o x_type
            \o "' must have type '" \o Get(contract, "type").s \o "'" >>
    ELSE <<>>

TypeInCheck(prop_name, x_type, contract, declared_type) ==
    IF HasKey(contract, "type_in") /\ ~InList(declared_type, Get(contract, "type_in"))
    THEN << "'" \o prop_name \o "' with x-wv-type '" \o x_type
            \o "' type must be one of [" \o JoinJ(", ", Get(contract, "type_in")) \o "]" >>
    ELSE <<>>

\* A variant that accepts the first format of the contract only.
FormatCheckFirstOnly(prop_name, contract, prop_schema) ==
    IF HasKey(contract, "format_in")
       /\ Get(prop_schema, "format") # Get(contract, "format_in").a[1]
    THEN << "'" \o prop_name \o "' must specify format in ["
            \o JoinJ(", ", Get(contract, "format_in")) \o "]" >>
    ELSE <<>>

FormatCheck(prop_name, contract, prop_schema) ==
    IF HasKey(contract, "format_in")
       /\ ~InList(Get(prop_schema, "format"), Get(contract, "format_in"))
    THEN << "'" \o prop_name \o "' must specify format in ["
            \o JoinJ(", ", Get(contract, "format_in")) \o "]" >>
    ELSE <<>>

\* A variant that never asks for an enum.
EnumCheckSkipped(prop_name, x_type, contract, prop_schema) == <<>>

EnumCheck(prop_name, x_type, contract, prop_schema) ==
    IF Get(contract, "requires_enum") = JBool(TRUE) /\ ~IsList(Get(prop_schema, "enum"))
    THEN << "'" \o prop_name \o "' with x-wv-type '" \o x_type
            \o "' must define an 'enum' array" >>
    ELSE <<>>

ItemsCheck(prop_name, x_type, contract, prop_schema) ==
    IF Get(contract, "type") = JStr("array") \/ x_type \in {"Checkbox", "People List"}
    THEN LET items == Get(prop_schema, "items") IN
         IF ~IsDict(items) \/ Get(items, "type") # JStr("string")
         THEN << "Array property '" \o prop_name \o "' must have items of type 'string'" >>
         ELSE <<>>
    ELSE <<>>

\* The condition of line 406, evaluated left to right with Python's
\* short-circuit "or": bad when it is true, exc when a .get on a nested
\* member that is no dict raises.
LatLonCondition(props) ==
    IF ~IsDict(props) THEN [bad |-> TRUE, exc |-> ""]
    ELSE LET lat == GetOr(props, "latitude", JObj(<<>>)) IN
         IF ~IsDict(lat) THEN [bad |-> FALSE, exc |-> AttributeErrorStr(lat)]
         ELSE IF Get(lat, "type") # JStr("number") THEN [bad |-> TRUE, exc |-> ""]
         ELSE LET lon == GetOr(props, "longitude", JObj(<<>>)) IN
              IF ~IsDict(lon) THEN [bad |-> FALSE, exc |-> AttributeErrorStr(lon)]
              ELSE [bad |-> Get(lon, "type") # JStr("number"), exc |-> ""]

LocationObjectCheck(prop_name, prop_schema) ==
    IF Get(prop_schema, "type") # JStr("object")
    THEN << "'$" \o prop_name \o "' must be an object" >>
    ELSE <<>>

\* A variant that asks the required list for latitude only.
LocationRequiredCheckLatitudeOnly(prop_name, prop_schema) ==
    LET req == GetOr(prop_schema, "required", JArr(<<>>)) IN
    IF ~InList(JStr("latitude"), req)
    THEN << "'" \o prop_name \o "' must require latitude and longitude" >>
    ELSE <<>>

LocationRequiredCheck(prop_name, prop_schema) ==
    LET req == GetOr(prop_schema, "required", JArr(<<>>)) IN
    IF ~(\A i \in 1..Len(LatLon.a) : InList(LatLon.a[i], req))
    THEN << "'" \o prop_name \o "' must require latitude and longitude" >>
    ELSE <<>>

\* The Location block: the messages it appends, or the exception it raises.
LocationChecks(prop_name, x_type, prop_schema) ==
    IF x_type # "Location" THEN [errs |-> <<>>, exc |-> ""]
    ELSE LET c == LatLonCondition(GetOr(prop_schema, "properties", JObj(<<>>)))
             before == LocationObjectCheck(prop_name, prop_schema)
                       \o LocationRequiredCheck(prop_name, prop_schema)
         IN  [errs |-> before \o
                       (IF c.bad
                        THEN << "'" \o prop_name
                                \o "' must define numeric latitude/longitude properties" >>
                        ELSE <<>>),
              exc |-> c.exc]

\* The contract checks of a property whose tag is in the fixed set.
ContractChecks(prop_name, x_type, prop_schema) ==
    LET contract == ContractOf(x_type)
        declared_type == Get(prop_schema, "type")
        loc == LocationChecks(prop_name, x_type, prop_schema)
    IN  [errs |-> TypeCheck(prop_name, x_type, contract, declared_type)
                  \o TypeInCheck(prop_name, x_type, contract, declared_type)
                  \o FormatCheck(prop_name, contract, prop_schema)
                  \o EnumCheck(prop_name, x_type, contract, prop_schema)
                  \o ItemsCheck(prop_name, x_type, contract, prop_schema)
                  \o loc.errs,
         exc |-> loc.exc]

\* One pass of the loop body: the messages appended to errors, and the text
\* of the exception raised in it ("" when none is).
CheckProperty(prop_name, prop_schema) ==
    IF ~IsDict(prop_schema)
    THEN [errs |-> << "Property '" \o prop_name \o "' must be an object schema" >>,
          exc |-> ""]
    ELSE LET x_type == Get(prop_schema, "x-wv-type") IN
         IF x_type = None
         THEN [errs |-> << "Property '" \o prop_name \o "' must include 'x-wv-type'" >>,
               exc |-> ""]
         ELSE IF ~InAllowedTypes(x_type)
         THEN [errs |-> << "Property '" \o prop_name \o "' has invalid x-wv-type '"
                           \o PyStr(x_type) \o "'" >>,
               exc |-> ""]
         ELSE ContractChecks(prop_name, x_type.s, prop_schema)

\* for prop_name, prop_schema in properties.items(): the errors list after
\* the pairs from index i on, or the exception that ended the loop.
RECURSIVE CheckProperties(_, _, _)
CheckProperties(pairs, i, errors) ==
    IF i > Len(pairs) THEN [errs |-> errors, exc |-> ""]
    ELSE LET r == CheckProperty(pairs[i][1], pairs[i][2]) IN
         IF r.exc # "" THEN [errs |-> errors \o r.errs, exc |-> r.exc]
         ELSE CheckProperties(pairs, i + 1, errors \o r.errs)

\* A variant of the final verdict that accepts a document with one violation.
VerdictOffByOne(errors) ==
    IF Len(errors) > 1
    THEN [valid |-> FALSE, violations |-> errors, message |-> Join("; ", errors),
          raised |-> <<>>]
    ELSE [valid |-> TRUE, violations |-> errors,
          message |-> "Schema is valid for WizyVision types", raised |-> <<>>]

\* if errors: return False, "; ".join(errors) / return True, ...
Verdict(errors) ==
    IF errors # <<>>
    THEN [valid |-> FALSE, violations |-> errors, message |-> Join("; ", errors),
          raised |-> <<>>]
    ELSE [valid |-> TRUE, violations |-> <<>>,
          message |-> "Schema is valid for WizyVision types", raised |-> <<>>]

\* A variant of the top-level checks without the one of the type.
TopLevelCheckNoType(doc) ==
    IF ~HasKey(doc, "$schema") THEN "Schema must include '$schema' property"
    ELSE LET properties == GetOr(doc, "properties", JObj(<<>>)) IN
         IF ~IsDict(properties) \/ properties.o = <<>>
         THEN "Schema must define non-empty 'properties' object"
         ELSE ""

\* The top-level checks, each an early return: the message returned, or ""
\* when the document passes them all.
TopLevelCheck(doc) ==
    IF Get(doc, "type") # JStr("object") THEN "Schema 'type' must be 'object'"
    ELSE IF ~HasKey(doc, "$schema") THEN "Schema must include '$schema' property"
    ELSE LET properties == GetOr(doc, "properties", JObj(<<>>)) IN
         IF ~IsDict(properties) \/ properties.o = <<>>
         THEN "Schema must define non-empty 'properties' object"
         ELSE ""

\* The try block: the result it returns, or the class and the text of the
\* exception it raises (exc_type <<>> when it returns).
Returning(result) == [exc_type |-> <<>>, exc |-> "", result |-> result]
Raising(exc_type, exc) == [exc_type |-> exc_type, exc |-> exc, result |-> NoResult]

TryBlock(doc) ==
    IF ~IsDraft7Schema(doc) THEN Raising(Mro.SchemaError, SchemaErrorStr)
    ELSE IF ~IsDict(doc) THEN Raising(Mro.AttributeError, AttributeErrorStr(doc))
    ELSE IF TopLevelCheck(doc) # "" THEN Returning(Rejected(TopLevelCheck(doc)))
    ELSE LET r == CheckProperties(GetOr(doc, "properties", JObj(<<>>)).o, 1, <<>>) IN
         IF r.exc # "" THEN Raising(Mro.AttributeError, r.exc)
         ELSE Returning(Verdict(r.errs))

\* A variant without the clause "except Exception".
ExceptClausesSchemaErrorOnly(body) ==
    IF body.exc_type = <<>> THEN body.result
    ELSE IF IsInstance(body.exc_type, "jsonschema.exceptions.SchemaError")
    THEN Rejected("JSON Schema validation failed: " \o body.exc)
    ELSE Propagated(body.exc_type)

\* The except clauses, in their order.
ExceptClauses(body) ==
    IF body.exc_type = <<>> THEN body.result
    ELSE IF IsInstance(body.exc_type, "jsonschema.exceptions.SchemaError")
    THEN Rejected("JSON Schema validation failed: " \o body.exc)
    ELSE IF IsException(body.exc_type)
    THEN Rejected("Schema validation failed: " \o body.exc)
    ELSE Propagated(body.exc_type)

validate_generated_schema(doc) == ExceptClauses(TryBlock(doc))

\* ------------------------------------------- the documents given to the validator

\* d with key set to val (d[key] = val: in place when the key is there, at
\* the end otherwise), and d without key.
With(d, key, val) ==
    IF HasKey(d, key)
    THEN JObj([i \in 1..Len(d.o) |-> IF d.o[i][1] = key THEN <<key, val>> ELSE d.o[i]])
    ELSE JObj(Append(d.o, <<key, val>>))
Without(d, key) == JObj(SelectSeq(d.o, LAMBDA p : p[1] # key))

Draft7Uri == JStr("http://json-schema.org/draft-07/schema#")

\* The descriptor of create_example_schema()'s "site".
SiteDescriptor ==
    JObj(<< <<"type", JStr("object")>>,
            <<"required", LatLon>>,
            <<"properties", LocationProperties>>,
            <<"x-wv-type", JStr("Location")>> >>)

\* For each tag, a descriptor that conforms to its contract, as
\* create_example_schema() and PREDEFINED_FIELDS write them.
Conforming(tag) ==
    CASE tag = "Toggle" ->
            JObj(<< <<"type", JStr("boolean")>>, <<"default", JBool(FALSE)>>,
                    <<"x-wv-type", JStr(tag)>> >>)
      [] tag \in {"Checkbox", "People List"} ->
            JObj(<< <<"type", JStr("array")>>, <<"items", StringSchema>>,
                    <<"x-wv-type", JStr(tag)>> >>)
      [] tag = "Date" ->
            JObj(<< <<"type", JStr("string")>>, <<"format", JStr("date-time")>>,
                    <<"x-wv-type", JStr(tag)>> >>)
      [] tag = "Number" ->
            JObj(<< <<"type", JStr("number")>>, <<"x-wv-type", JStr(tag)>> >>)
      [] tag = "Location" -> SiteDescriptor
      [] tag = "Dropdown" ->
            JObj(<< <<"type", JStr("string")>>,
                    <<"enum", JArr(<< JStr("Low"), JStr("Medium"), JStr("High") >>)>>,
                    <<"x-wv-type", JStr(tag)>> >>)
      [] tag = "Paragraph" ->
            JObj(<< <<"type", JStr("string")>>, <<"minLength", JNum(10)>>,
                    <<"x-wv-type", JStr(tag)>> >>)
      [] OTHER ->
            JObj(<< <<"type", JStr("string")>>, <<"x-wv-type", JStr(tag)>> >>)

Tags == {WV_ALLOWED_TYPES[i] : i \in 1..Len(WV_ALLOWED_TYPES)}

\* The JSON types a tag's contract accepts as the declared type.
AcceptedTypes(tag) ==
    LET c == TYPE_CONTRACTS[tag] IN
    IF HasKey(c, "type_in")
    THEN {Get(c, "type_in").a[i].s : i \in 1..Len(Get(c, "type_in").a)}
    ELSE {Get(c, "type").s}

\* A conforming descriptor with its declared type replaced by a JSON type
\* the contract does not accept.
WrongTypeDescriptors ==
    {With(Conforming(tag), "type", JStr(t)) : <<tag, t>> \in
        {x \in Tags \X SimpleTypes : x[2] \notin AcceptedTypes(x[1])}}

\* Descriptors with a defect other than the declared type.
DefectDescriptors ==
    { Without(Conforming(tag), "type") : tag \in Tags }
    \cup
    { Without(Conforming("Dropdown"), "enum"),
      With(Conforming("Dropdown"), "enum", JArr(<<>>)),
      With(Without(Conforming("Dropdown"), "enum"), "type", JStr("number")),
      Without(Conforming("Checkbox"), "items"),
      With(Conforming("Checkbox"), "items", NumberSchema),
      With(Conforming("People List"), "items", JBool(TRUE)),
      With(Conforming("People List"), "items", JArr(<<StringSchema>>)),
      Without(Conforming("Date"), "format"),
      With(Conforming("Date"), "format", JStr("time")),
      With(Conforming("Date"), "format", JStr("date")),
      With(Conforming("Number"), "type", JStr("integer")),
      With(Conforming("Number"), "type", JArr(<< JStr("number"), JStr("integer") >>)),
      With(SiteDescriptor, "required", JArr(<< JStr("latitude") >>)),
      Without(SiteDescriptor, "required"),
      Without(SiteDescriptor, "properties"),
      With(SiteDescriptor, "properties", With(LocationProperties, "latitude", StringSchema)),
      With(SiteDescriptor, "properties", With(LocationProperties, "longitude", StringSchema)),
      With(SiteDescriptor, "properties", Without(LocationProperties, "longitude")),
      With(SiteDescriptor, "properties", With(LocationProperties, "latitude", JBool(TRUE))),
      With(SiteDescriptor, "properties", With(LocationProperties, "longitude", JBool(FALSE))),
      With(SiteDescriptor, "properties",
           With(With(LocationProperties, "latitude", StringSchema), "longitude", JBool(TRUE))),
      With(With(SiteDescriptor, "type", JStr("string")), "required", JArr(<<>>)) }

\* Property values that never reach the contract checks, and values the
\* meta-schema refuses.
UntaggedDescriptors ==
    { JBool(TRUE), JBool(FALSE),
      StringSchema,
      With(StringSchema, "x-wv-type", None),
      With(StringSchema, "x-wv-type", JStr("Slider")),
      With(StringSchema, "x-wv-type", JStr("toggle")),
      With(StringSchema, "x-wv-type", JNum(5)),
      With(StringSchema, "x-wv-type", JArr(<< JStr("Text") >>)),
      With(StringSchema, "x-wv-type", JObj(<< <<"a", JNum(1)>> >>)),
      JStr("string"),
      None,
      With(Conforming("Text"), "type", JStr("text")),
      With(Conforming("Dropdown"), "enum", JStr("Low")),
      With(SiteDescriptor, "required", JArr(<< JStr("latitude"), JStr("latitude") >>)) }

\* Non-empty enum lists: strings, one string, numbers, a repeated value, null.
NonEmptyEnums ==
    { JArr(<< JStr("Low"), JStr("Medium"), JStr("High") >>),
      JArr(<< JStr("a") >>),
      JArr(<< JNum(1), JNum(2) >>),
      JArr(<< JStr("a"), JStr("a") >>),
      JArr(<< None >>) }

\* Dropdown descriptors with each of these lists as their enum.
EnumDescriptors == {With(Conforming("Dropdown"), "enum", e) : e \in NonEmptyEnums}

\* Required lists of a Location: with and without each coordinate, in both
\* orders, with another member.
RequiredLists ==
    { JArr(<<>>),
      JArr(<< JStr("latitude") >>),
      JArr(<< JStr("longitude") >>),
      JArr(<< JStr("label") >>),
      JArr(<< JStr("latitude"), JStr("label") >>),
      JArr(<< JStr("latitude"), JStr("longitude") >>),
      JArr(<< JStr("longitude"), JStr("latitude") >>),
      JArr(<< JStr("latitude"), JStr("label"), JStr("longitude") >>) }

\* Location descriptors with each of these lists as their required list.
RequiredDescriptors == {With(SiteDescriptor, "required", r) : r \in RequiredLists}

AllDescriptors ==
    {Conforming(tag) : tag \in Tags} \cup WrongTypeDescriptors
    \cup DefectDescriptors \cup UntaggedDescriptors \cup EnumDescriptors
    \cup RequiredDescriptors

\* The descriptors that documents of several properties combine.
CoreDescriptors ==
    { Conforming("Dropdown"),
      Conforming("Paragraph"),
      SiteDescriptor,
      Without(Conforming("Dropdown"), "enum"),
      With(Without(Conforming("Date"), "format"), "type", JStr("number")),
      With(With(SiteDescriptor, "type", JStr("string")), "required", JArr(<<>>)),
      With(SiteDescriptor, "properties", With(LocationProperties, "latitude", JBool(TRUE))),
      JBool(TRUE),
      StringSchema,
      With(StringSchema, "x-wv-type", JStr("Slider")) }

\* The property's key at position i of a property map.
PropName(i) == "field" \o ToString(i)

\* {"field1": ds[1], "field2": ds[2], ...}
PropertyMap(ds) == JObj([i \in 1..Len(ds) |-> <<PropName(i), ds[i]>>])

\* A document with the given top-level members; None stands for a member
\* the document does not have.
Document(schemaUri, type, properties) ==
    JObj((IF schemaUri = None THEN <<>> ELSE << <<"$schema", schemaUri>> >>)
         \o (IF type = None THEN <<>> ELSE << <<"type", type>> >>)
         \o (IF properties = None THEN <<>> ELSE << <<"properties", properties>> >>))

SeqsUpTo(S, n) == UNION {[1..m -> S] : m \in 0..n}

\* Documents sound at the top level.
PropertyDocuments ==
    {Document(Draft7Uri, JStr("object"), PropertyMap(<<d>>)) : d \in AllDescriptors}
    \cup {Document(Draft7Uri, JStr("object"), PropertyMap(ds)) :
            ds \in SeqsUpTo(CoreDescriptors, MaxProps)}

\* Documents with every combination of the top-level members.
TopLevelDocuments ==
    {Document(u, t, p) :
        u \in {None, Draft7Uri},
        t \in {None, JStr("object"), JStr("array"), JStr("Object"),
               JArr(<< JStr("object") >>)},
        p \in {None, JObj(<<>>), JArr(<<>>),
               PropertyMap(<< Conforming("Text") >>),
               PropertyMap(<< Without(Conforming("Dropdown"), "enum") >>),
               PropertyMap(<< JBool(TRUE), Without(Conforming("Date"), "type") >>)}}

\* Values that are no mapping at the top level.
NonMappingDocuments ==
    {JBool(TRUE), JBool(FALSE), None, JStr("object"), JNum(7), JArr(<<>>),
     JArr(<< Document(Draft7Uri, JStr("object"), PropertyMap(<< Conforming("Text") >>)) >>)}

PREDEFINED_FIELDS ==
    JObj(<< <<"postRef",
              JObj(<< <<"type", JStr("string")>>, <<"x-wv-type", JStr("Text")>>,
                      <<"description", JStr("Case ID (unique identifier)")>>,
                      <<"minLength", JNum(1)>> >>)>>,
            <<"typeId",
              JObj(<< <<"type", JStr("string")>>, <<"x-wv-type", JStr("Text")>>,
                      <<"description", JStr("Application ID")>> >>)>>,
            <<"statusId",
              JObj(<< <<"type", JStr("string")>>,
                      <<"enum", JArr(<< JStr("open"), JStr("closed") >>)>>,
                      <<"default", JStr("open")>>,
                      <<"x-wv-type", JStr("Dropdown")>>,
                      <<"description", JStr("Status of the record")>> >>)>>,
            <<"privacyId",
              JObj(<< <<"type", JStr("string")>>,
                      <<"enum", JArr(<< JStr("public"), JStr("private"),
                                        JStr("restricted") >>)>>,
                      <<"x-wv-type", JStr("Dropdown")>>,
                      <<"description", JStr("Privacy level")>> >>)>>,
            <<"description",
              JObj(<< <<"type", JStr("string")>>, <<"x-wv-type", JStr("Paragraph")>>,
                      <<"description", JStr("Detailed description")>>,
                      <<"minLength", JNum(1)>> >>)>>,
            <<"tags",
              JObj(<< <<"type", JStr("array")>>, <<"items", StringSchema>>,
                      <<"x-wv-type", JStr("Checkbox")>>,
                      <<"description", JStr("Tags for categorization")>> >>)>>,
            <<"assignedTo",
              JObj(<< <<"type", JStr("string")>>, <<"x-wv-type", JStr("People")>>,
                      <<"description", JStr("Assigned user")>> >>)>>,
            <<"memId",
              JObj(<< <<"type", JStr("string")>>, <<"x-wv-type", JStr("People")>>,
                      <<"description", JStr("Created by user (auto-populated)")>> >>)>>,
            <<"createdAt",
              JObj(<< <<"type", JStr("string")>>, <<"format", JStr("date-time")>>,
                      <<"x-wv-type", JStr("Date")>>,
                      <<"description", JStr("Creation timestamp (auto-populated)")>> >>)>>,
            <<"updatedAt",
              JObj(<< <<"type", JStr("string")>>, <<"format", JStr("date-time")>>,
                      <<"x-wv-type", JStr("Date")>>,
                      <<"description", JStr("Last update timestamp (auto-updated)")>> >>)>> >>)

\* create_example_schema()
create_example_schema ==
    JObj(<< <<"$schema", Draft7Uri>>,
            <<"type", JStr("object")>>,
            <<"properties",
              JObj(<< <<"priority",
                        JObj(<< <<"type", JStr("string")>>,
                                <<"enum", JArr(<< JStr("Low"), JStr("Medium"),
                                                  JStr("High") >>)>>,
                                <<"x-wv-type", JStr("Dropdown")>> >>)>>,
                      <<"details",
                        JObj(<< <<"type", JStr("string")>>, <<"minLength", JNum(10)>>,
                                <<"x-wv-type", JStr("Paragraph")>> >>)>>,
                      <<"isResolved",
                        JObj(<< <<"type", JStr("boolean")>>, <<"default", JBool(FALSE)>>,
                                <<"x-wv-type", JStr("Toggle")>> >>)>>,
                      <<"assignee",
                        JObj(<< <<"type", JStr("string")>>,
                                <<"x-wv-type", JStr("People")>> >>)>>,
                      <<"watchers",
                        JObj(<< <<"type", JStr("array")>>, <<"items", StringSchema>>,
                                <<"x-wv-type", JStr("People List")>> >>)>>,
                      <<"scheduledAt",
                        JObj(<< <<"type", JStr("string")>>, <<"format", JStr("date-time")>>,
                                <<"x-wv-type", JStr("Date")>> >>)>>,
                      <<"site", SiteDescriptor>> >>)>>,
            <<"required", JArr(<< JStr("priority"), JStr("details") >>)>> >>)

\* create_predefined_schema()
create_predefined_schema ==
    JObj(<< <<"$schema", Draft7Uri>>,
            <<"type", JStr("object")>>,
            <<"properties", PREDEFINED_FIELDS>>,
            <<"required", JArr(<< JStr("postRef"), JStr("typeId"), JStr("statusId"),
                                  JStr("description") >>)>> >>)

\* doc with the descriptor of its property name replaced by d.
WithProperty(doc, name, d) ==
    With(doc, "properties", With(Get(doc, "properties"), name, d))

\* The documents the builders return, and the example with the enum of
\* "priority" removed or emptied.
BuiltDocuments ==
    { create_example_schema,
      create_predefined_schema,
      WithProperty(create_example_schema, "priority",
                   Without(Conforming("Dropdown"), "enum")),
      WithProperty(create_example_schema, "priority",
                   With(Conforming("Dropdown"), "enum", JArr(<<>>))) }

Documents ==
    PropertyDocuments \cup TopLevelDocuments \cup NonMappingDocuments
    \cup BuiltDocuments

\* ----------------------------------------------------------- the validator's run

NoReturn == [schema |-> None, status |-> ""]

GeneratorIdle ==
    /\ pc = "idle"
    /\ max_retries = 0
    /\ attempt = 0
    /\ ret = NoReturn
    /\ log = <<>>
    /\ sleeps = <<>>

InitValidate ==
    /\ schema \in Documents
    /\ registry = Registry
    /\ vpc = "call"
    /\ vresult = NoResult
    /\ GeneratorIdle

\* The effects of validate_generated_schema(schema): its result. It only
\* reads its argument and the globals (.get, .items, in, indexing); the one
\* list it appends to, errors, is its own.
CallValidator ==
    /\ vresult' = validate_generated_schema(schema)
    /\ UNCHANGED <<schema, registry>>

\* is_valid, message = validate_generated_schema(schema)
Validate ==
    /\ vpc = "call"
    /\ CallValidator
    /\ vpc' = "returned"
    /\ UNCHANGED gvars

NextValidate ==
    \/ Validate

SpecValidate == InitValidate /\ [][NextValidate]_vars

\* ------------------------------------------------- the completion service's texts

\* A response text is the sequence of its characters, each one element,
\* written as in a str. The JSON text of a whole document, as json.dumps
\* writes it, may stand as one element, its name in DocumentTexts, and so
\* may the long text "<D>" of LongTexts: each is one line, it begins with
\* "{" or "[" and ends with "}" or "]".
ExampleProperties ==
    JObj(<< <<"priority",
              JObj(<< <<"type", JStr("string")>>,
                      <<"enum", JArr(<< JStr("Low"), JStr("Medium"), JStr("High") >>)>>,
                      <<"x-wv-type", JStr("Dropdown")>> >>)>>,
            <<"details",
              JObj(<< <<"type", JStr("string")>>, <<"minLength", JNum(5)>>,
                      <<"x-wv-type", JStr("Paragraph")>> >>)>>,
            <<"isResolved",
              JObj(<< <<"type", JStr("boolean")>>, <<"default", JBool(FALSE)>>,
                      <<"x-wv-type", JStr("Toggle")>> >>)>>,
            <<"assignee",
              JObj(<< <<"type", JStr("string")>>, <<"x-wv-type", JStr("People")>> >>)>>,
            <<"watchers",
              JObj(<< <<"type", JStr("array")>>, <<"items", StringSchema>>,
                      <<"x-wv-type", JStr("People List")>> >>)>>,
            <<"scheduledAt",
              JObj(<< <<"type", JStr("string")>>, <<"format", JStr("date-time")>>,
                      <<"x-wv-type", JStr("Date")>> >>)>> >>)

RequiredList == JArr(<< JStr("priority"), JStr("details") >>)

DocumentTexts ==
    \* the schema of create_system_prompt's example
    ("<A>" :> With(Document(Draft7Uri, JStr("object"), ExampleProperties),
                   "required", RequiredList))
    \* another valid document
 @@ ("<B>" :> Document(Draft7Uri, JStr("object"),
                       JObj(<< <<"site", SiteDescriptor>> >>)))
    \* schema-invalid: no enum on the Dropdown, no tag on details
 @@ ("<I>" :> Document(Draft7Uri, JStr("object"),
                       JObj(<< <<"priority", Without(Conforming("Dropdown"), "enum")>>,
                               <<"details", StringSchema>> >>)))

\* The fence, three grave accents (U+0060).
Fence == << Chr(96), Chr(96), Chr(96) >>
FenceJson == Fence \o << "j", "s", "o", "n" >>

\* The characters for which str.isspace() holds, by their code points.
SpaceChars ==
    {Chr(code) : code \in (9..13) \cup (28..32) \cup {133, 160, 5760} \cup (8192..8202)
                          \cup {8232, 8233, 8239, 8287, 12288}}

\* str.isspace() of one character
IsSpace(c) == c \in SpaceChars

\* text.lstrip(), text.rstrip(), text.strip(): the text from its first
\* character that is no blank, and up to its last one.
LStrip(t) ==
    IF \A i \in 1..Len(t) : IsSpace(t[i]) THEN <<>>
    ELSE SubSeq(t, CHOOSE i \in 1..Len(t) :
                       ~IsSpace(t[i]) /\ \A j \in 1..(i - 1) : IsSpace(t[j]),
                Len(t))
RStrip(t) ==
    IF \A i \in 1..Len(t) : IsSpace(t[i]) THEN <<>>
    ELSE SubSeq(t, 1, CHOOSE i \in 1..Len(t) :
                          ~IsSpace(t[i]) /\ \A j \in (i + 1)..Len(t) : IsSpace(t[j]))
Strip(t) == RStrip(LStrip(t))

\* text.startswith(prefix), text.endswith(suffix)
StartsWith(t, prefix) ==
    Len(t) >= Len(prefix) /\ SubSeq(t, 1, Len(prefix)) = prefix
EndsWith(t, suffix) ==
    Len(t) >= Len(suffix) /\ SubSeq(t, Len(t) - Len(suffix) + 1, Len(t)) = suffix

\* The cleaning of a response text in generate_schema, on the base call and
\* on the escalated call alike.
CleanResponse(text) ==
    LET t1 == Strip(text)
        t2 == IF StartsWith(t1, FenceJson) THEN SubSeq(t1, 8, Len(t1)) ELSE t1
        t3 == IF EndsWith(t2, Fence) THEN SubSeq(t2, 1, Len(t2) - 3) ELSE t2
    IN  Strip(t3)

\* ------------------------------------------------------ json.dumps, json.loads

\* json.dumps(v): one line, ", " and ": " as separators; in a str the quote
\* and the backslash are escaped, the backspace, the form feed, the newline,
\* the carriage return and the tab written \b, \f, \n, \r, \t, and every
\* other character outside U+0020..U+007E by its code point, \uXXXX in
\* lower-case digits, as a pair of surrogates from U+10000 on. (A character
\* written as itself, and none of those above, is one of U+0020..U+007E.)
DumpsChar(c) ==
    CASE c = "\"" -> "\\\""
      [] c = "\\" -> "\\\\"
      [] c = "\n" -> "\\n"
      [] c = "\r" -> "\\r"
      [] c = "\t" -> "\\t"
      [] c = "\f" -> "\\f"
      [] c = "<U+0008>" -> "\\b"
      [] OTHER ->
            IF Len(c) = 1 \/ (Ord(c) >= 32 /\ Ord(c) <= 126) THEN c
            ELSE IF Ord(c) < 65536 THEN "\\u" \o Hex(Ord(c), 4, "0123456789abcdef")
            ELSE "\\u" \o Hex(55296 + ((Ord(c) - 65536) \div 1024), 4, "0123456789abcdef")
                 \o "\\u" \o Hex(56320 + ((Ord(c) - 65536) % 1024), 4, "0123456789abcdef")
DumpsStr(s) ==
    LET cs == Chars(s) IN
    "\"" \o Join("", [i \in 1..Len(cs) |-> DumpsChar(cs[i])]) \o "\""
RECURSIVE json_dumps(_)
json_dumps(v) ==
    CASE v.k = "none" -> "null"
      [] v.k = "str" -> DumpsStr(v.s)
      [] v.k = "bool" -> (IF v.b THEN "true" ELSE "false")
      [] v.k = "num" -> ToString(v.n)
      [] v.k = "float" ->
            (IF v.sp = "nan" THEN "NaN"
             ELSE IF v.sp = "inf" THEN (IF v.neg THEN "-Infinity" ELSE "Infinity")
             ELSE FloatRepr(v))
      [] v.k = "arr" ->
            "[" \o Join(", ", [i \in 1..Len(v.a) |-> json_dumps(v.a[i])]) \o "]"
      [] v.k = "obj" ->
            "{" \o Join(", ", [i \in 1..Len(v.o) |->
                                  DumpsStr(v.o[i][1]) \o ": " \o json_dumps(v.o[i][2])])
                \o "}"

\* The arrays and objects one in another that the decoder reads before the
\* interpreter's recursion limit (1000, the default) stops it, when
\* generate_schema is called from main() and main() from the script: the
\* bracket that opens one more raises a RecursionError.
MaxNesting == 993

\* A long text that stands as one element, by its name: JSON of one array
\* more, one in another, than json.loads reads.
LongTexts ==
    "<D>" :> [i \in 1..(2 * MaxNesting + 2) |-> IF i <= MaxNesting + 1 THEN "[" ELSE "]"]

\* The characters of a text, those each name stands for included: the text
\* up to the first name, the characters of that name, and the rest likewise.
RECURSIVE Expand(_)
Expand(text) ==
    LET names == DOMAIN DocumentTexts \cup DOMAIN LongTexts IN
    IF \A i \in 1..Len(text) : text[i] \notin names THEN text
    ELSE LET first == CHOOSE i \in 1..Len(text) :
                          /\ text[i] \in names
                          /\ \A j \in 1..(i - 1) : text[j] \notin names
         IN  SubSeq(text, 1, first - 1)
             \o (IF text[first] \in DOMAIN LongTexts THEN LongTexts[text[first]]
                 ELSE Chars(json_dumps(DocumentTexts[text[first]])))
             \o Expand(SubSeq(text, first + 1, Len(text)))

\* The decoder reads a sequence s of characters by positions that count
\* from 0. Where a value may begin, the name of a document is read as the
\* value its text holds, which is that document; anywhere else it is read as
\* the first character of its text, "{" or "[", which none of the tests for
\* a quote, a delimiter, a digit or an escape finds; inside a string literal
\* the characters after the first count too, and the decoder asks for the
\* text with every name written out in characters.
\* s[i:i+1]
At(s, i) == IF i >= 0 /\ i < Len(s) THEN s[i + 1] ELSE ""
\* s[i:i+len(word)] == word
Matches(s, i, word) ==
    i + Len(word) <= Len(s) /\ SubSeq(s, i + 1, i + Len(word)) = Chars(word)

\* The end of the run of characters of chars that begins at i: the first
\* position from i on whose character is none of them.
EndOfRun(s, i, chars) ==
    IF i >= Len(s) THEN i
    ELSE CHOOSE j \in i..Len(s) :
             At(s, j) \notin chars /\ \A l \in i..(j - 1) : At(s, l) \in chars

\* The end of the run of JSON's blanks that begins at i.
SkipWhitespace(s, i) == EndOfRun(s, i, {" ", "\t", "\n", "\r"})

SkipDigits(s, i) == EndOfRun(s, i, Digits)
\* int(digits)
RECURSIVE IntOf(_)
IntOf(digits) ==
    IF digits = <<>> THEN 0
    ELSE IntOf(SubSeq(digits, 1, Len(digits) - 1)) * 10 + DigitValue(digits[Len(digits)])

\* The four hexadecimal digits of a \uXXXX escape, from i on
IsHex4(s, i) ==
    \A j \in 0..3 : At(s, i + j) \in Digits \cup {"a", "b", "c", "d", "e", "f",
                                                 "A", "B", "C", "D", "E", "F"}
Hex4(s, i) ==
    HexValue(At(s, i)) * 4096 + HexValue(At(s, i + 1)) * 256
    + HexValue(At(s, i + 2)) * 16 + HexValue(At(s, i + 3))

\* The characters U+0000 to U+001F, which a JSON string holds only escaped.
ControlChars == {Chr(code) : code \in 0..31}

\* The character a one-letter escape stands for.
Escapes ==
    ("\"" :> "\"") @@ ("\\" :> "\\") @@ ("/" :> "/") @@ ("b" :> Chr(8))
    @@ ("f" :> "\f") @@ ("n" :> "\n") @@ ("r" :> "\r") @@ ("t" :> "\t")

\* What a step of the decoder gives: a value and the position after it, or
\* the message and the position of a JSONDecodeError, or the class and the
\* text of another exception. The message "<written out>" is no error but
\* the request for the text with every name written out in characters.
Decoded(val, end) ==
    [ok |-> TRUE, val |-> val, end |-> end, exc_type |-> <<>>, msg |-> "", pos |-> 0]
DecodeError(msg, pos) ==
    [ok |-> FALSE, val |-> None, end |-> pos, exc_type |-> Mro.JSONDecodeError,
     msg |-> msg, pos |-> pos]
Raised(exc_type, msg) ==
    [ok |-> FALSE, val |-> None, end |-> 0, exc_type |-> exc_type, msg |-> msg, pos |-> 0]

\* raise_errmsg inside depth arrays and objects: the JSONDecodeError, which
\* takes three calls one in another to make, of the class, of its __init__
\* and of a method of str there; the call that the recursion limit stops
\* raises a RecursionError. ("Expecting value" is raised outside the arrays
\* and objects, by raw_decode.)
ErrMsg(msg, pos, depth) ==
    IF depth <= MaxNesting - 3 THEN DecodeError(msg, pos)
    ELSE IF depth = MaxNesting - 1
    THEN Raised(Mro.RecursionError, "maximum recursion depth exceeded")
    ELSE Raised(Mro.RecursionError,
                "maximum recursion depth exceeded while calling a Python object")

\* The end of the run of plain characters that begins at i in a string
\* literal: the quote, the backslash, a control character and a name end
\* it.
ChunkEnd(s, i) ==
    LET ends == {"\"", "\\"} \cup ControlChars \cup DOMAIN DocumentTexts
                \cup DOMAIN LongTexts IN
    CHOOSE j \in i..Len(s) :
        /\ j = Len(s) \/ At(s, j) \in ends
        /\ \A l \in i..(j - 1) : At(s, l) \notin ends

\* scanstring: the str of the literal that opens at begin, read from i on, a
\* run of plain characters or an escape at a time, inside depth arrays and
\* objects.
RECURSIVE ScanString(_, _, _, _, _)
ScanString(s, begin, i, acc, depth) ==
    IF i >= Len(s) THEN ErrMsg("Unterminated string starting at", begin, depth)
    ELSE LET c == At(s, i) IN
         IF c = "\"" THEN Decoded(acc, i + 1)
         ELSE IF c \in DOMAIN DocumentTexts \cup DOMAIN LongTexts
         THEN DecodeError("<written out>", i)
         ELSE IF c \in ControlChars THEN ErrMsg("Invalid control character at", i, depth)
         ELSE IF c # "\\"
         THEN ScanString(s, begin, ChunkEnd(s, i),
                         acc \o Join("", SubSeq(s, i + 1, ChunkEnd(s, i))), depth)
         ELSE IF i + 1 >= Len(s)
         THEN ErrMsg("Unterminated string starting at", begin, depth)
         ELSE IF At(s, i + 1) # "u"
         THEN (IF At(s, i + 1) \in DOMAIN Escapes
               THEN ScanString(s, begin, i + 2, acc \o Escapes[At(s, i + 1)], depth)
               ELSE ErrMsg("Invalid \\escape", i, depth))
         ELSE LET end == i + 6 IN
              IF end >= Len(s) \/ ~IsHex4(s, i + 2)
              THEN ErrMsg("Invalid \\uXXXX escape", i + 1, depth)
              ELSE LET code == Hex4(s, i + 2) IN
                   IF /\ code >= 55296 /\ code <= 56319
                      /\ end + 6 < Len(s)
                      /\ At(s, end) = "\\" /\ At(s, end + 1) = "u"
                   THEN (IF ~IsHex4(s, end + 2)
                         THEN ErrMsg("Invalid \\uXXXX escape", end + 1, depth)
                         ELSE LET low == Hex4(s, end + 2) IN
                              IF low >= 56320 /\ low <= 57343
                              THEN ScanString(s, begin, end + 6,
                                     acc \o Chr(65536 + (code - 55296) * 1024
                                                + (low - 56320)),
                                     depth)
                              ELSE ScanString(s, begin, end, acc \o Chr(code), depth))
                   ELSE ScanString(s, begin, end, acc \o Chr(code), depth)

\* float(literal) for the digits mant and the decimal exponent exp: the
\* digits without their last zeros. The literal is 0.d1d2... * 10^decpt; it
\* is an infinity from 1.797693134862315808e308 on, half a step above the
\* largest float, and zero up to 2.470328229206232721e-324, half the
\* smallest float; first9 is its first nine digits and tenth the tenth, a
\* literal of this model having ten digits at most (one of more digits than
\* an integer of the model has is outside this model). A literal with
\* digits below 1e-323 lies between floats, which are 2^-1074 =
\* 4.94...e-324 apart there: float() takes the nearest, the k-th, and repr
\* writes the fewest digits that read back as that float, the nearest to it
\* where several do. half holds the digits of 2^-1075 = 2.47...e-324 after
\* sixteen zeros, and Times(k, below)[p] is the p-th group of four digits,
\* the units in group 0, of k * 2^-1075 counted in units of
\* 10^(-324 - below), the integers of TLC having 32 bits. The k-th float
\* reaches from 2k - 1 to 2k + 1 times 2^-1075: the first is Under the
\* literal f.mant * 10^(-324 - below) and the second is not, and k is no
\* less than Least(whole) for the whole units of the literal. The float is
\* Written as the multiple of 1e-323 in its reach if there is one and as the
\* nearest multiple of 1e-324 if not.
RECURSIVE Normalised(_, _, _)
Normalised(neg, mant, exp) ==
    IF mant = 0 THEN JFloat(neg, 0, 0)
    ELSE IF mant % 10 = 0 THEN Normalised(neg, mant \div 10, exp + 1)
    ELSE JFloat(neg, mant, exp)
FloatOf(neg, mant, exp) ==
    LET f == Normalised(neg, mant, exp)
        n == Len(ToString(f.mant))
        decpt == n + f.exp
        first9 == IF n > 9 THEN f.mant \div 10
                  ELSE IntOf(Chars(ToString(f.mant)) \o [i \in 1..(9 - n) |-> "0"])
        tenth == IF n > 9 THEN f.mant % 10 ELSE 0
        half == << 0, 0, 0, 0, 0, 0, 0, 0, 0, 0, 0, 0, 0, 0, 0, 0,
                  2, 4, 7, 0, 3, 2, 8, 2, 2, 9, 2, 0, 6, 2, 3, 2, 7, 2, 0,
                  8, 8, 2, 8, 4, 3, 9, 6, 4, 3, 4, 1, 1, 0, 6, 8, 6, 1 >>
        HalfGroup(below, p) ==
            IF p < -6 THEN 0
            ELSE LET i == 14 + below - 4 * p
                 IN  1000 * half[i] + 100 * half[i + 1] + 10 * half[i + 2] + half[i + 3]
        RECURSIVE Sum(_, _, _)
        Sum(k, below, p) ==
            IF p < -6 THEN 0
            ELSE HalfGroup(below, p) * (k % 10000)
                 + HalfGroup(below, p - 1) * ((k \div 10000) % 10000)
                 + HalfGroup(below, p - 2) * (k \div 100000000)
                 + Sum(k, below, p - 1) \div 10000
        Times(k, below) == [p \in -1..2 |-> Sum(k, below, p) % 10000]
        Under(t) ==
            \/ t[2] < f.mant \div 100000000
            \/ /\ t[2] = f.mant \div 100000000
               /\ \/ t[1] < (f.mant \div 10000) % 10000
                  \/ /\ t[1] = (f.mant \div 10000) % 10000
                     /\ t[0] < f.mant % 10000
        Tens(t) == t[2] * 10000000 + t[1] * 1000 + t[0] \div 10
        Written(from, to, mid) ==
            IF Tens(to) > Tens(from) THEN Normalised(neg, Tens(to), -323)
            ELSE JFloat(neg,
                        mid[2] * 100000000 + mid[1] * 10000 + mid[0]
                        + (IF mid[-1] >= 5000 THEN 1 ELSE 0),
                        -324)
        Nearest(k) == Written(Times(2 * k - 1, 0), Times(2 * k + 1, 0), Times(2 * k, 0))
        Least(whole) ==
            2 * (whole \div 10) + 2 * (whole \div 1000) + 4 * (whole \div 10000)
            + 2 * (whole \div 1000000) + 2 * (whole \div 10000000)
            + 5 * (whole \div 100000000) + 3 * (whole \div 1000000000)
        Float(below, least) ==
            Nearest(CHOOSE k \in (IF least = 0 THEN 1 ELSE least)..(least + 22) :
                        Under(Times(2 * k - 1, below)) /\ ~Under(Times(2 * k + 1, below)))
        Subnormal ==
            Float(-324 - f.exp,
                  Least(f.mant \div << 1, 10, 100, 1000, 10000, 100000, 1000000,
                                      10000000, 100000000 >>[-323 - f.exp]))
    IN  IF f.mant = 0 THEN f
        ELSE IF \/ decpt > 309
                \/ decpt = 309 /\ first9 > 179769313
                \/ decpt = 309 /\ first9 = 179769313 /\ tenth >= 5
        THEN JInf(neg)
        ELSE IF decpt < -323 \/ (decpt = -323 /\ first9 <= 247032822)
        THEN JFloat(neg, 0, 0)
        ELSE IF f.exp <= -324 THEN Subnormal
        ELSE f

\* A number at i: -?(0|[1-9][0-9]*)(\.[0-9]+)?([eE][-+]?[0-9]+)?, an int
\* without fraction and exponent, else a float. int() raises a ValueError
\* on more than 4300 digits (sys.get_int_max_str_digits() of Python 3.11).
\* (An integer of the model is one of TLC: those beyond 2147483647 and up to
\* 4300 digits are outside this model.)
ScanNumber(s, i) ==
    LET neg == At(s, i) = "-"
        int_from == IF neg THEN i + 1 ELSE i
    IN  IF At(s, int_from) \notin Digits THEN DecodeError("Expecting value", i)
        ELSE
        LET int_to == IF At(s, int_from) = "0" THEN int_from + 1
                      ELSE SkipDigits(s, int_from)
            has_frac == At(s, int_to) = "." /\ At(s, int_to + 1) \in Digits
            frac_to == IF has_frac THEN SkipDigits(s, int_to + 1) ELSE int_to
            exp_from == IF At(s, frac_to + 1) \in {"+", "-"}
                        THEN frac_to + 2 ELSE frac_to + 1
            has_exp == At(s, frac_to) \in {"e", "E"} /\ At(s, exp_from) \in Digits
            exp_to == IF has_exp THEN SkipDigits(s, exp_from) ELSE frac_to
            int_digits == SubSeq(s, int_from + 1, int_to)
            frac_digits == IF has_frac THEN SubSeq(s, int_to + 2, frac_to) ELSE <<>>
            exponent == IF ~has_exp THEN 0
                        ELSE IF At(s, frac_to + 1) = "-"
                        THEN 0 - IntOf(SubSeq(s, exp_from + 1, exp_to))
                        ELSE IntOf(SubSeq(s, exp_from + 1, exp_to))
        IN  IF ~has_frac /\ ~has_exp /\ Len(int_digits) > 4300
            THEN Raised(Mro.ValueError,
                        "Exceeds the limit (4300 digits) for integer string conversion: "
                        \o "value has " \o ToString(Len(int_digits)) \o " digits; use "
                        \o "sys.set_int_max_str_digits() to increase the limit")
            ELSE IF ~has_frac /\ ~has_exp
            THEN Decoded(JNum(IF neg THEN 0 - IntOf(int_digits) ELSE IntOf(int_digits)),
                         int_to)
            ELSE Decoded(FloatOf(neg, IntOf(int_digits \o frac_digits),
                                 exponent - Len(frac_digits)),
                         exp_to)

\* dict(pairs), one pair more: a key that is there keeps its place and takes
\* the new value.
SetItem(pairs, key, val) ==
    IF \E i \in 1..Len(pairs) : pairs[i][1] = key
    THEN [i \in 1..Len(pairs) |-> IF pairs[i][1] = key THEN <<key, val>> ELSE pairs[i]]
    ELSE Append(pairs, <<key, val>>)

\* The calls one in another that the decoder makes for each document of
\* DocumentTexts: for an array or an object one more than for the deepest of
\* its elements or members, for nan and the infinities one, for any other
\* value none.
DocumentNesting ==
    LET RECURSIVE Nesting(_)
        Nesting(v) ==
            LET inner == IF v.k = "arr" THEN {Nesting(v.a[i]) : i \in 1..Len(v.a)}
                         ELSE {Nesting(v.o[i][2]) : i \in 1..Len(v.o)}
            IN  IF v.k = "float" /\ v.sp # "" THEN 1
                ELSE IF v.k \notin {"arr", "obj"} THEN 0
                ELSE 1 + (CHOOSE n \in inner \cup {0} : \A m \in inner : m <= n)
    IN  ("<A>" :> Nesting(DocumentTexts["<A>"])) @@ ("<B>" :> Nesting(DocumentTexts["<B>"]))
        @@ ("<I>" :> Nesting(DocumentTexts["<I>"]))

\* scan_once: the JSON value that begins at i, inside depth arrays and
\* objects. ScanMembers reads the members of an object from the key at i on,
\* ScanElements the elements of an array from the value at i on.
RECURSIVE scan_once(_, _, _)
RECURSIVE ScanMembers(_, _, _, _)
RECURSIVE ScanElements(_, _, _, _)

\* After a member: "}" closes the object, "," brings the next key.
NextMember(s, next, pairs, depth) ==
    IF At(s, next) = "}" THEN Decoded(JObj(pairs), next + 1)
    ELSE IF At(s, next) # "," THEN ErrMsg("Expecting ',' delimiter", next, depth)
    ELSE ScanMembers(s, SkipWhitespace(s, next + 1), pairs, depth)

\* The value of a member, as scan_once read it.
AfterMemberValue(s, value, key, pairs, depth) ==
    IF ~value.ok THEN value
    ELSE NextMember(s, SkipWhitespace(s, value.end), SetItem(pairs, key, value.val), depth)

\* The key of a member, as scanstring read it: a colon, then the value.
AfterKey(s, key, pairs, depth) ==
    IF ~key.ok THEN key
    ELSE IF At(s, SkipWhitespace(s, key.end)) # ":"
    THEN ErrMsg("Expecting ':' delimiter", SkipWhitespace(s, key.end), depth)
    ELSE AfterMemberValue(s, scan_once(s, SkipWhitespace(s, SkipWhitespace(s, key.end) + 1),
                                       depth),
                          key.val, pairs, depth)

ScanMembers(s, i, pairs, depth) ==
    IF At(s, i) # "\""
    THEN ErrMsg("Expecting property name enclosed in double quotes", i, depth)
    ELSE AfterKey(s, ScanString(s, i, i + 1, "", depth), pairs, depth)

\* After an element: "]" closes the array, "," brings the next element.
NextElement(s, next, values, depth) ==
    IF At(s, next) = "]" THEN Decoded(JArr(values), next + 1)
    ELSE IF At(s, next) # "," THEN ErrMsg("Expecting ',' delimiter", next, depth)
    ELSE ScanElements(s, SkipWhitespace(s, next + 1), values, depth)

\* An element, as scan_once read it.
AfterElement(s, value, values, depth) ==
    IF ~value.ok THEN value
    ELSE NextElement(s, SkipWhitespace(s, value.end), Append(values, value.val), depth)

ScanElements(s, i, values, depth) == AfterElement(s, scan_once(s, i, depth), values, depth)

\* A string literal, as scanstring read it, as a value.
StringValue(str) == IF str.ok THEN Decoded(JStr(str.val), str.end) ELSE str

\* The value that begins with the character c at i, inside depth arrays and
\* objects. A run of "[" opens as many arrays one in another, with nothing
\* between that could fail before the one too many. NaN, Infinity and
\* -Infinity are made by a call of parse_constant, which the recursion limit
\* stops as it stops one more array or object; the other values are made
\* without a call.
ScanValue(s, i, c, depth) ==
    IF c = "" THEN DecodeError("Expecting value", i)
    ELSE IF c \in DOMAIN LongTexts THEN DecodeError("<written out>", i)
    ELSE IF c \in DOMAIN DocumentTexts
    THEN (IF depth + DocumentNesting[c] <= MaxNesting
          THEN Decoded(DocumentTexts[c], i + 1)
          ELSE DecodeError("<written out>", i))
    ELSE IF c = "\"" THEN StringValue(ScanString(s, i, i + 1, "", depth))
    ELSE IF c = "{"
    THEN (IF depth + 1 > MaxNesting
          THEN Raised(Mro.RecursionError, "maximum recursion depth exceeded while "
                                          \o "decoding a JSON object from a unicode string")
          ELSE IF At(s, SkipWhitespace(s, i + 1)) = "}"
          THEN Decoded(JObj(<<>>), SkipWhitespace(s, i + 1) + 1)
          ELSE ScanMembers(s, SkipWhitespace(s, i + 1), <<>>, depth + 1))
    ELSE IF c = "["
    THEN (IF depth + (EndOfRun(s, i, {"["}) - i) > MaxNesting
          THEN Raised(Mro.RecursionError, "maximum recursion depth exceeded while "
                                          \o "decoding a JSON array from a unicode string")
          ELSE IF At(s, SkipWhitespace(s, i + 1)) = "]"
          THEN Decoded(JArr(<<>>), SkipWhitespace(s, i + 1) + 1)
          ELSE ScanElements(s, SkipWhitespace(s, i + 1), <<>>, depth + 1))
    ELSE IF Matches(s, i, "null") THEN Decoded(None, i + 4)
    ELSE IF Matches(s, i, "true") THEN Decoded(JBool(TRUE), i + 4)
    ELSE IF Matches(s, i, "false") THEN Decoded(JBool(FALSE), i + 5)
    ELSE IF Matches(s, i, "NaN") \/ Matches(s, i, "Infinity") \/ Matches(s, i, "-Infinity")
    THEN (IF depth + 1 > MaxNesting
          THEN Raised(Mro.RecursionError,
                      "maximum recursion depth exceeded while calling a Python object")
          ELSE IF Matches(s, i, "NaN") THEN Decoded(JNaN, i + 3)
          ELSE IF Matches(s, i, "Infinity") THEN Decoded(JInf(FALSE), i + 8)
          ELSE Decoded(JInf(TRUE), i + 9))
    ELSE ScanNumber(s, i)

scan_once(s, i, depth) == ScanValue(s, i, At(s, i), depth)

\* The number of characters of the first n elements of a text: one each,
\* and for a name the length of the text it stands for.
RECURSIVE CharsOfDocuments(_, _)
CharsOfDocuments(s, at) ==
    IF at = {} THEN 0
    ELSE LET j == CHOOSE j \in at : TRUE IN
         (IF s[j] \in DOMAIN LongTexts THEN Len(LongTexts[s[j]])
          ELSE Len(Chars(json_dumps(DocumentTexts[s[j]]))))
         + CharsOfDocuments(s, at \ {j})
CharsBefore(s, n) ==
    LET at == {j \in 1..n : s[j] \in DOMAIN DocumentTexts \cup DOMAIN LongTexts} IN
    n - Cardinality(at) + CharsOfDocuments(s, at)

\* The element that begins the line of position i, which counts from 0.
LineStart(s, i) ==
    IF \A j \in 1..i : s[j] # "\n" THEN 0
    ELSE CHOOSE j \in 1..i : s[j] = "\n" /\ \A l \in (j + 1)..i : s[l] # "\n"

\* str(e) of a JSONDecodeError: the message, then the line and the column of
\* the position, which count from 1, and the position, all in characters.
JSONDecodeErrorStr(msg, s, i) ==
    msg \o ": line " \o ToString(Cardinality({j \in 1..i : s[j] = "\n"}) + 1)
    \o " column " \o ToString(CharsBefore(s, i) - CharsBefore(s, LineStart(s, i)) + 1)
    \o " (char " \o ToString(CharsBefore(s, i)) \o ")"

\* What json.loads gives: the document, or the class and the text of the
\* exception it raises.
LoadsRaises(exc_type, err) == [ok |-> FALSE, doc |-> None, exc_type |-> exc_type, err |-> err]

\* The end of the text after the value: what follows the value and its
\* blanks is extra data.
AfterValue(s, value, end) ==
    IF end # Len(s)
    THEN LoadsRaises(Mro.JSONDecodeError, JSONDecodeErrorStr("Extra data", s, end))
    ELSE [ok |-> TRUE, doc |-> value.val, exc_type |-> <<>>, err |-> ""]

\* JSONDecoder.decode on the text s: one value between blanks.
RECURSIVE JsonDecode(_)
Loaded(s, value) ==
    IF value.ok THEN AfterValue(s, value, SkipWhitespace(s, value.end))
    ELSE IF value.msg = "<written out>" THEN JsonDecode(Expand(s))
    ELSE IF value.exc_type = Mro.JSONDecodeError
    THEN LoadsRaises(value.exc_type, JSONDecodeErrorStr(value.msg, s, value.pos))
    ELSE LoadsRaises(value.exc_type, value.msg)
JsonDecode(s) == Loaded(s, scan_once(s, SkipWhitespace(s, 0), 0))

\* json.loads(text): a text that begins with U+FEFF is refused, any other
\* decoded.
JsonLoads(text) ==
    IF At(text, 0) = "<U+FEFF>"
    THEN LoadsRaises(Mro.JSONDecodeError,
                     JSONDecodeErrorStr("Unexpected UTF-8 BOM (decode using utf-8-sig)",
                                        text, 0))
    ELSE JsonDecode(text)

\* What one call of model.generate_content does: it returns a response with
\* a text, or it raises.
Returns(text) == [kind |-> "text", text |-> text, exc_type |-> <<>>, err |-> ""]
Raises(exc_type, err) ==
    [kind |-> "raise", text |-> <<>>, exc_type |-> exc_type, err |-> err]

ResponseTexts ==
    { << "<A>" >>,
      << "<B>" >>,
      FenceJson \o << "\n", "<A>", "\n" >> \o Fence,
      Fence \o << "\n", "<A>", "\n" >> \o Fence,
      << "<D>" >>,
      << "<I>" >>,
      \* a document and a word after it
      << "<B>", " ", "x" >>,
      << " ", "\n" >>,
      << >> }

\* json.loads(cleaned_text) for every text a response carries: the text, and
\* what json.loads makes of it once the fences are removed.
Parsed == {<< text, JsonLoads(CleanResponse(text)) >> : text \in ResponseTexts}

\* What json.loads makes of the cleaned text of a response.
ParsedOf(out) == (CHOOSE p \in Parsed : p[1] = out.text)[2]

Outcomes ==
    {Returns(t) : t \in ResponseTexts} \cup {Raises(Mro.ServiceUnavailable, "503 Service Unavailable")}

\* ------------------------------------------------------------- generate_schema

Init ==
    /\ GeneratorIdle
    /\ schema = None
    /\ registry = Registry
    /\ vpc = "idle"
    /\ vresult = NoResult

\* return doc, status
Return(doc, status) ==
    /\ pc' = "returned"
    /\ ret' = [schema |-> doc, status |-> status]

\* A variant whose failure message names the loop index, not max_retries.
NextAttemptLoopIndex ==
    IF attempt + 1 < max_retries
    THEN /\ attempt' = attempt + 1
         /\ pc' = "base"
         /\ UNCHANGED ret
    ELSE /\ Return(None, "Failed to generate valid schema after "
                         \o ToString(attempt) \o " attempts")
         /\ UNCHANGED attempt

\* The end of one pass of the loop body: the next value of range(max_retries),
\* or the return after the loop.
NextAttempt ==
    IF attempt + 1 < max_retries
    THEN /\ attempt' = attempt + 1
         /\ pc' = "base"
         /\ UNCHANGED ret
    ELSE /\ Return(None, "Failed to generate valid schema after "
                         \o ToString(max_retries) \o " attempts")
         /\ UNCHANGED attempt

\* A variant of the except clauses' body that goes on without sleeping.
RetryOrGiveUpNoSleep(error_msg, cause) ==
    IF attempt < max_retries - 1
    THEN /\ NextAttempt
         /\ UNCHANGED sleeps
    ELSE /\ Return(None, error_msg)
         /\ UNCHANGED <<attempt, sleeps>>

\* The body the two except clauses share: sleep and go on, or give up with
\* the error's message on the last attempt.
RetryOrGiveUp(error_msg, cause) ==
    IF attempt < max_retries - 1
    THEN /\ sleeps' = Append(sleeps, [attempt |-> attempt + 1, after |-> cause])
         /\ NextAttempt
    ELSE /\ Return(None, error_msg)
         /\ UNCHANGED <<attempt, sleeps>>

\* A variant that gives up on the first parse failure.
OnJSONDecodeErrorNoRetry(err) ==
    /\ Return(None, "Invalid JSON generated on attempt " \o ToString(attempt + 1)
                    \o ": " \o err)
    /\ UNCHANGED <<attempt, sleeps>>

\* except json.JSONDecodeError as e
OnJSONDecodeError(err) ==
    RetryOrGiveUp("Invalid JSON generated on attempt " \o ToString(attempt + 1)
                  \o ": " \o err, "JSONDecodeError")

\* A variant whose message leaves the error's text out.
OnExceptionNoText(err) ==
    RetryOrGiveUp("Error on attempt " \o ToString(attempt + 1), "Exception")

\* except Exception as e
OnException(err) ==
    RetryOrGiveUp("Error on attempt " \o ToString(attempt + 1) \o ": " \o err,
                  "Exception")

\* A variant without the clause "except Exception".
ExceptClausesOfLoopJSONOnly(exc_type, err) ==
    IF IsInstance(exc_type, "json.decoder.JSONDecodeError") THEN OnJSONDecodeError(err)
    ELSE /\ pc' = "raised"
         /\ UNCHANGED <<attempt, ret, sleeps>>

\* The except clauses of the loop body, in their order; an exception of a
\* class that neither catches leaves generate_schema.
ExceptClausesOfLoop(exc_type, err) ==
    IF IsInstance(exc_type, "json.decoder.JSONDecodeError") THEN OnJSONDecodeError(err)
    ELSE IF IsException(exc_type) THEN OnException(err)
    ELSE /\ pc' = "raised"
         /\ UNCHANGED <<attempt, ret, sleeps>>

\* A variant that fails as soon as a base response does not validate.
AfterInvalidBaseGiveUp ==
    /\ Return(None, "Failed to generate valid schema after "
                    \o ToString(max_retries) \o " attempts")
    /\ UNCHANGED <<attempt, sleeps>>

\* A variant that escalates on the last attempt too.
AfterInvalidBaseAlwaysEscalates ==
    /\ pc' = "escalated"
    /\ UNCHANGED <<attempt, ret, sleeps>>

\* The base response did not validate: the escalated call on all but the
\* last attempt, else the end of the loop body.
AfterInvalidBase ==
    IF attempt < max_retries - 1
    THEN /\ pc' = "escalated"
         /\ UNCHANGED <<attempt, ret, sleeps>>
    ELSE /\ NextAttempt
         /\ UNCHANGED sleeps

\* A variant whose success status names the loop index, not attempt + 1.
AfterBaseCallLoopIndex(out) ==
    IF out.kind = "raise" THEN ExceptClausesOfLoop(out.exc_type, out.err)
    ELSE IF out.text = <<>>
    THEN /\ Return(None, "Empty response from Gemini API")
         /\ UNCHANGED <<attempt, sleeps>>
    ELSE LET parsed == ParsedOf(out) IN
         IF ~parsed.ok THEN ExceptClausesOfLoop(parsed.exc_type, parsed.err)
         ELSE IF validate_generated_schema(parsed.doc).valid
         THEN /\ Return(parsed.doc, "Schema generated successfully on attempt "
                                    \o ToString(attempt))
              /\ UNCHANGED <<attempt, sleeps>>
         ELSE AfterInvalidBase

\* What follows response = model.generate_content(full_prompt).
AfterBaseCall(out) ==
    IF out.kind = "raise" THEN ExceptClausesOfLoop(out.exc_type, out.err)
    ELSE IF out.text = <<>>
    THEN /\ Return(None, "Empty response from Gemini API")
         /\ UNCHANGED <<attempt, sleeps>>
    ELSE LET parsed == ParsedOf(out) IN
         IF ~parsed.ok THEN ExceptClausesOfLoop(parsed.exc_type, parsed.err)
         ELSE IF validate_generated_schema(parsed.doc).valid
         THEN /\ Return(parsed.doc, "Schema generated successfully on attempt "
                                    \o ToString(attempt + 1))
              /\ UNCHANGED <<attempt, sleeps>>
         ELSE AfterInvalidBase

\* A variant that returns the escalated response without validating it.
AfterEscalatedCallUnchecked(out) ==
    IF out.kind = "raise" THEN ExceptClausesOfLoop(out.exc_type, out.err)
    ELSE LET parsed == ParsedOf(out) IN
         IF ~parsed.ok THEN ExceptClausesOfLoop(parsed.exc_type, parsed.err)
         ELSE /\ Return(parsed.doc, "Schema generated successfully on retry "
                                    \o ToString(attempt + 1))
              /\ UNCHANGED <<attempt, sleeps>>

\* What follows response = model.generate_content(enhanced_prompt).
AfterEscalatedCall(out) ==
    IF out.kind = "raise" THEN ExceptClausesOfLoop(out.exc_type, out.err)
    ELSE LET parsed == ParsedOf(out) IN
         IF ~parsed.ok THEN ExceptClausesOfLoop(parsed.exc_type, parsed.err)
         ELSE IF validate_generated_schema(parsed.doc).valid
         THEN /\ Return(parsed.doc, "Schema generated successfully on retry "
                                    \o ToString(attempt + 1))
              /\ UNCHANGED <<attempt, sleeps>>
         ELSE /\ NextAttempt
              /\ UNCHANGED sleeps

\* A variant that enters the loop body before it looks at max_retries.
GenerateSchemaBodyFirst(mr) ==
    /\ pc = "idle"
    /\ max_retries' = mr
    /\ attempt' = 0
    /\ pc' = "base"
    /\ UNCHANGED <<ret, log, sleeps, vvars>>

\* The call generate_schema(user_prompt, mr), up to its first completion call.
GenerateSchema(mr) ==
    /\ pc = "idle"
    /\ max_retries' = mr
    /\ attempt' = 0
    /\ IF mr > 0
       THEN pc' = "base" /\ UNCHANGED ret
       ELSE Return(None, "Failed to generate valid schema after "
                         \o ToString(mr) \o " attempts")
    /\ UNCHANGED <<log, sleeps, vvars>>

\* The base completion call of an attempt and all that follows it up to the
\* next completion call or the return.
BaseCall ==
    /\ pc = "base"
    /\ \E out \in Outcomes :
          /\ log' = Append(log, [attempt |-> attempt + 1, call |-> "base", out |-> out])
          /\ AfterBaseCall(out)
    /\ UNCHANGED <<max_retries, vvars>>

\* The escalated completion call of an attempt and all that follows it.
EscalatedCall ==
    /\ pc = "escalated"
    /\ \E out \in Outcomes :
          /\ log' = Append(log, [attempt |-> attempt + 1, call |-> "escalated",
                                 out |-> out])
          /\ AfterEscalatedCall(out)
    /\ UNCHANGED <<max_retries, vvars>>

Next ==
    \/ \E mr \in 0..MaxRetries : GenerateSchema(mr)
    \/ BaseCall
    \/ EscalatedCall

Spec == Init /\ [][Next]_vars

\* The same under the condition that every completion call returns or
\* raises: generate_schema is sequential code, so once a call is made the
\* step that follows it is taken.
SpecFair == Spec /\ WF_vars(BaseCall) /\ WF_vars(EscalatedCall)

\* =========================================================================
\* Properties of validate_generated_schema, checked under SpecValidate
\* =========================================================================

Validated == vpc = "returned"

\* The property map of a document, as pairs (none when it has no mapping).
PairsOf(doc) ==
    IF IsDict(doc) /\ IsDict(Get(doc, "properties")) THEN Get(doc, "properties").o
    ELSE <<>>

\* The three top-level defects of a mapping the meta-schema accepts.
TypeDefect(doc) == Get(doc, "type") # JStr("object")
MarkerDefect(doc) == ~HasKey(doc, "$schema")
PropertiesDefect(doc) == PairsOf(doc) = <<>>
TopLevelDefectCount(doc) ==
    (IF TypeDefect(doc) THEN 1 ELSE 0) + (IF MarkerDefect(doc) THEN 1 ELSE 0)
    + (IF PropertiesDefect(doc) THEN 1 ELSE 0)

\* The document that declares only the i-th property of doc, under its name,
\* and is sound at the top level.
Alone(doc, i) == Document(Draft7Uri, JStr("object"), JObj(<< PairsOf(doc)[i] >>))

\* The i-th property makes the validator's pass end in an exception.
PropertyRaises(doc, i) ==
    CheckProperty(PairsOf(doc)[i][1], PairsOf(doc)[i][2]).exc # ""
NoPropertyRaises(doc) == \A i \in 1..Len(PairsOf(doc)) : ~PropertyRaises(doc, i)

\* The violations of the properties from the i-th on, each validated alone.
RECURSIVE ViolationsAlone(_, _)
ViolationsAlone(doc, i) ==
    IF i > Len(PairsOf(doc)) THEN <<>>
    ELSE validate_generated_schema(Alone(doc, i)).violations
         \o ViolationsAlone(doc, i + 1)

\* C1: every defect of a document, top-level ones included, is reported as
\* its own violation in one pass: a document the meta-schema accepts, none of
\* whose properties raises, has at least as many violations as it has
\* top-level defects and violations of its properties, each validated alone.
C1_EveryDefectReported ==
    (Validated /\ IsDraft7Schema(schema) /\ IsDict(schema) /\ NoPropertyRaises(schema))
    => Len(vresult.violations)
         >= TopLevelDefectCount(schema) + Len(ViolationsAlone(schema, 1))

\* No check of the pass records a violation: the meta-schema accepts the
\* document, it is a mapping, sound at the top level, and no property has a
\* message or raises.
NothingRecorded(doc) ==
    /\ IsDraft7Schema(doc)
    /\ IsDict(doc)
    /\ TopLevelDefectCount(doc) = 0
    /\ \A i \in 1..Len(PairsOf(doc)) :
          LET r == CheckProperty(PairsOf(doc)[i][1], PairsOf(doc)[i][2])
          IN  r.errs = <<>> /\ r.exc = ""

\* C2: the verdict is true if and only if no violation was recorded, at the
\* top level or on any property.
C2_ValidIffNoViolation ==
    Validated =>
        /\ vresult.valid <=> vresult.violations = <<>>
        /\ vresult.valid <=> NothingRecorded(schema)

\* C2's case: a document of two properties found valid.
C2_Witness ==
    /\ Validated
    /\ vresult.valid
    /\ Len(PairsOf(schema)) = 2

\* A Location descriptor of the document has a latitude or longitude member
\* that is no mapping.
NonMappingMember(doc) ==
    \E i \in 1..Len(PairsOf(doc)) :
        LET d == PairsOf(doc)[i][2] IN
        /\ IsDict(d)
        /\ Get(d, "x-wv-type") = JStr("Location")
        /\ IsDict(Get(d, "properties"))
        /\ \E m \in {"latitude", "longitude"} :
              /\ HasKey(Get(d, "properties"), m)
              /\ ~IsDict(Get(Get(d, "properties"), m))

\* C9: the validator never raises, and a value that is no mapping, or that has
\* a Location member that is no mapping, is answered (false, message).
C9_NeverRaises ==
    Validated =>
        /\ vresult.raised = <<>>
        /\ vresult.message # ""
        /\ (~IsDict(schema) \/ NonMappingMember(schema)) => ~vresult.valid

\* C9's case: a document the meta-schema accepts, sound at the top level,
\* whose Location has a latitude that is no mapping: the AttributeError is
\* caught and reported.
C9_Witness ==
    /\ Validated
    /\ IsDraft7Schema(schema)
    /\ IsDict(schema)
    /\ TopLevelDefectCount(schema) = 0
    /\ NonMappingMember(schema)
    /\ vresult.message = "Schema validation failed: 'bool' object has no attribute 'get'"

\* The documents of one property whose descriptor conforms to its tag's
\* contract but for a wrong declared JSON type.
WrongTypeDocuments ==
    {Document(Draft7Uri, JStr("object"), PropertyMap(<<d>>)) : d \in WrongTypeDescriptors}

\* The one violation a wrong declared type calls for: it names the property
\* and the expected type (or types).
ExpectedTypeMessages(doc) ==
    LET name == PairsOf(doc)[1][1]
        tag == Get(PairsOf(doc)[1][2], "x-wv-type").s
    IN  { "'" \o name \o "' with x-wv-type '" \o tag \o "' must have type '" \o t \o "'" :
            t \in AcceptedTypes(tag) }
        \cup { "'" \o name \o "' with x-wv-type '" \o tag
               \o "' type must be one of [number, integer]" }

\* C10 as claimed: for every tag, a wrong declared type on an otherwise
\* conforming descriptor gives exactly one violation, naming the property and
\* the expected type.
C10_OneViolationPerWrongType ==
    (Validated /\ schema \in WrongTypeDocuments) =>
        /\ Len(vresult.violations) = 1
        /\ vresult.violations[1] \in ExpectedTypeMessages(schema)

\* The i-th property of doc is a Dropdown descriptor of type string, tagged,
\* with nothing else in it but, maybe, an enum.
PlainDropdown(doc, i) ==
    /\ IsDict(PairsOf(doc)[i][2])
    /\ Without(PairsOf(doc)[i][2], "enum") = Without(Conforming("Dropdown"), "enum")

\* Every property of doc but the i-th is valid when validated alone, and doc
\* is sound at the top level.
OtherwiseValid(doc, i) ==
    /\ IsDraft7Schema(doc)
    /\ TopLevelDefectCount(doc) = 0
    /\ \A j \in 1..Len(PairsOf(doc)) :
          j # i => validate_generated_schema(Alone(doc, j)).valid

\* doc with the enum of its i-th property set to e.
WithEnum(doc, i, e) ==
    WithProperty(doc, PairsOf(doc)[i][1], With(PairsOf(doc)[i][2], "enum", e))

\* The message that asks a Dropdown for its enum.
EnumMessage(name) == "'" \o name \o "' with x-wv-type 'Dropdown' must define an 'enum' array"

\* C11 as claimed: a Dropdown descriptor whose enum is the empty list is
\* rejected with a violation.
C11_EmptyEnumRejected ==
    (Validated /\ IsDict(schema)) =>
        \A i \in 1..Len(PairsOf(schema)) :
            (PlainDropdown(schema, i) /\ Get(PairsOf(schema)[i][2], "enum") = JArr(<<>>))
            => /\ ~vresult.valid
               /\ Len(vresult.violations) >= 1

\* C12: in an otherwise valid document, a Dropdown with no enum key gives
\* exactly one violation, which names the property and 'enum'; with any
\* non-empty enum list on that descriptor, all else fixed, the document is
\* valid with zero violations.
C12_EnumKeyDecides ==
    (Validated /\ IsDict(schema)) =>
        \A i \in 1..Len(PairsOf(schema)) :
            (PlainDropdown(schema, i) /\ OtherwiseValid(schema, i)) =>
                LET d == PairsOf(schema)[i][2] IN
                /\ ~HasKey(d, "enum")
                    => /\ ~vresult.valid
                       /\ vresult.violations = << EnumMessage(PairsOf(schema)[i][1]) >>
                       /\ vresult.message = EnumMessage(PairsOf(schema)[i][1])
                       /\ \A e \in NonEmptyEnums :
                             validate_generated_schema(WithEnum(schema, i, e))
                               = Verdict(<<>>)
                /\ (IsList(Get(d, "enum")) /\ Get(d, "enum") # JArr(<<>>))
                    => /\ vresult.valid
                       /\ vresult.violations = <<>>

\* C12's case: the example document with the enum of "priority" removed.
C12_Witness ==
    /\ Validated
    /\ schema = WithProperty(create_example_schema, "priority",
                             Without(Conforming("Dropdown"), "enum"))
    /\ PlainDropdown(schema, 1)
    /\ OtherwiseValid(schema, 1)
    /\ vresult.violations = << EnumMessage("priority") >>

\* The i-th property of doc is a Location descriptor of type object, tagged,
\* with latitude and longitude properties of type number, and nothing else
\* but, maybe, a required list.
PlainLocation(doc, i) ==
    /\ IsDict(PairsOf(doc)[i][2])
    /\ Without(PairsOf(doc)[i][2], "required") = Without(SiteDescriptor, "required")

\* doc with name added at the end of the required list of its i-th property.
WithRequired(doc, i, name) ==
    LET d == PairsOf(doc)[i][2]
        req == GetOr(d, "required", JArr(<<>>))
    IN  WithProperty(doc, PairsOf(doc)[i][1],
                     With(d, "required", JArr(Append(req.a, JStr(name)))))

\* The message that asks a Location for its required coordinates.
RequiredMessage(name) == "'" \o name \o "' must require latitude and longitude"

\* C13: a Location descriptor whose required list lacks longitude is rejected;
\* with longitude added to the list, latitude and longitude being declared of
\* type number, it passes.
C13_RequiredLongitudeDecides ==
    (Validated /\ IsDict(schema)) =>
        \A i \in 1..Len(PairsOf(schema)) :
            (PlainLocation(schema, i) /\ OtherwiseValid(schema, i)) =>
                LET req == GetOr(PairsOf(schema)[i][2], "required", JArr(<<>>)) IN
                /\ ~InList(JStr("longitude"), req)
                    => /\ ~vresult.valid
                       /\ vresult.violations = << RequiredMessage(PairsOf(schema)[i][1]) >>
                /\ (~InList(JStr("longitude"), req) /\ InList(JStr("latitude"), req))
                    => validate_generated_schema(WithRequired(schema, i, "longitude"))
                         = Verdict(<<>>)
                /\ (InList(JStr("longitude"), req) /\ InList(JStr("latitude"), req))
                    => /\ vresult.valid
                       /\ vresult.violations = <<>>

\* C13's case: a Location that requires latitude and label, not longitude.
C13_Witness ==
    /\ Validated
    /\ IsDict(schema)
    /\ Len(PairsOf(schema)) = 1
    /\ PlainLocation(schema, 1)
    /\ Get(PairsOf(schema)[1][2], "required") = JArr(<< JStr("latitude"), JStr("label") >>)
    /\ vresult.violations = << RequiredMessage("field1") >>
    /\ validate_generated_schema(WithRequired(schema, 1, "longitude")).valid

\* The top-level type of doc is not exactly "object": doc is no mapping, has
\* no type, or has another value as its type.
TypeNotObject(doc) == ~IsDict(doc) \/ Get(doc, "type") # JStr("object")

\* C14: a document whose top-level type is not exactly "object", absent
\* included, is rejected, whatever its $schema and its properties are; when
\* the meta-schema accepts the mapping, the message is the one of the type.
C14_TypeNotObjectRejected ==
    (Validated /\ TypeNotObject(schema))
    => /\ ~vresult.valid
       /\ Len(vresult.violations) = 1
       /\ (IsDict(schema) /\ IsDraft7Schema(schema))
            => vresult.message = "Schema 'type' must be 'object'"

\* C14's case: the type is "array", the marker is there and the one property
\* conforms to its tag.
C14_Witness ==
    /\ Validated
    /\ schema = Document(Draft7Uri, JStr("array"), PropertyMap(<< Conforming("Text") >>))
    /\ validate_generated_schema(With(schema, "type", JStr("object"))).valid
    /\ vresult = Rejected("Schema 'type' must be 'object'")

\* The descriptor d conforms to the contract TYPE_CONTRACTS holds for tag:
\* each entry of the contract is met by the member of d it speaks of.
ConformsTo(d, tag) ==
    LET c == TYPE_CONTRACTS[tag] IN
    /\ IsDict(d)
    /\ Get(d, "x-wv-type") = JStr(tag)
    /\ HasKey(c, "type") => Get(d, "type") = Get(c, "type")
    /\ HasKey(c, "type_in") => InList(Get(d, "type"), Get(c, "type_in"))
    /\ HasKey(c, "format_in") => InList(Get(d, "format"), Get(c, "format_in"))
    /\ HasKey(c, "requires_enum")
         => IsList(Get(d, "enum")) /\ Get(d, "enum") # JArr(<<>>)
    /\ HasKey(c, "items") => Get(d, "items") = Get(c, "items")
    /\ HasKey(c, "required")
         => /\ IsList(Get(d, "required"))
            /\ \A k \in 1..Len(Get(c, "required").a) :
                  InList(Get(c, "required").a[k], Get(d, "required"))
    /\ HasKey(c, "properties")
         => /\ IsDict(Get(d, "properties"))
            /\ \A k \in 1..Len(Get(c, "properties").o) :
                  LET m == Get(c, "properties").o[k] IN
                  /\ IsDict(Get(Get(d, "properties"), m[1]))
                  /\ Get(Get(Get(d, "properties"), m[1]), "type") = Get(m[2], "type")

\* Every property of doc conforms to the contract of some tag.
AllConform(doc) ==
    /\ PairsOf(doc) # <<>>
    /\ \A i \in 1..Len(PairsOf(doc)) :
          \E tag \in DOMAIN TYPE_CONTRACTS : ConformsTo(PairsOf(doc)[i][2], tag)

\* The tags whose contract a property of doc conforms to.
TagsConformedTo(doc) ==
    {tag \in DOMAIN TYPE_CONTRACTS :
        \E i \in 1..Len(PairsOf(doc)) : ConformsTo(PairsOf(doc)[i][2], tag)}

\* C15: a document the meta-schema accepts, sound at the top level, whose
\* properties all conform to the contract of their tag, is valid with zero
\* violations; the documents of create_example_schema() and
\* create_predefined_schema() are such documents, and for every tag the
\* descriptor written for it conforms.
C15_ConformingIsValid ==
    /\ (Validated /\ IsDraft7Schema(schema) /\ IsDict(schema)
          /\ TopLevelDefectCount(schema) = 0 /\ AllConform(schema))
         => vresult = Verdict(<<>>)
    /\ (Validated /\ schema \in {create_example_schema, create_predefined_schema})
         => /\ AllConform(schema)
            /\ vresult = Verdict(<<>>)
    /\ \A tag \in Tags : ConformsTo(Conforming(tag), tag)
    /\ Tags = DOMAIN TYPE_CONTRACTS

\* C15's case: the document of create_predefined_schema(), whose ten fields
\* conform to the contracts of six tags, found valid.
C15_Witness ==
    /\ Validated
    /\ schema = create_predefined_schema
    /\ AllConform(schema)
    /\ Len(PairsOf(schema)) = 10
    /\ TagsConformedTo(schema) = {"Text", "Dropdown", "Paragraph", "Checkbox", "People", "Date"}
    /\ vresult.valid
    /\ vresult.violations = <<>>

\* Why the loop leaves a property without contract checks: its value is no
\* mapping, it has no tag, its tag is not in the fixed set; "" when its
\* contract is checked.
SkipKind(d) ==
    IF ~IsDict(d) THEN "no mapping"
    ELSE IF Get(d, "x-wv-type") = None THEN "no tag"
    ELSE IF ~(Get(d, "x-wv-type").k = "str" /\ Get(d, "x-wv-type").s \in Tags)
    THEN "unknown tag"
    ELSE ""

\* The one violation of a property the loop leaves so.
SkipMessage(name, d) ==
    CASE SkipKind(d) = "no mapping" -> "Property '" \o name \o "' must be an object schema"
      [] SkipKind(d) = "no tag" -> "Property '" \o name \o "' must include 'x-wv-type'"
      [] SkipKind(d) = "unknown tag" ->
            "Property '" \o name \o "' has invalid x-wv-type '"
            \o PyStr(Get(d, "x-wv-type")) \o "'"

\* How many times msg is in the list of violations.
Occurrences(violations, msg) ==
    Cardinality({k \in 1..Len(violations) : violations[k] = msg})

\* C21: in a document sound at the top level, every property whose value is
\* no mapping, that has no tag, or whose tag is not in the fixed set, has
\* exactly one violation recorded, the one of its kind, whatever the other
\* properties are.
C21_OneViolationWhateverTheValue ==
    (Validated /\ IsDict(schema) /\ TopLevelDefectCount(schema) = 0) =>
        \A i \in 1..Len(PairsOf(schema)) :
            LET name == PairsOf(schema)[i][1]
                d == PairsOf(schema)[i][2]
            IN  SkipKind(d) # ""
                => Occurrences(vresult.violations, SkipMessage(name, d)) = 1

\* The entries of the list WV_ALLOWED_TYPES, as the globals hold it.
AllowedTypeSet ==
    {registry.WV_ALLOWED_TYPES[i] : i \in 1..Len(registry.WV_ALLOWED_TYPES)}

\* The tags of doc's properties that pass the membership check of the loop
\* body, for which the contract is then fetched.
CheckedTags(doc) ==
    {Get(PairsOf(doc)[i][2], "x-wv-type").s : i \in
        {j \in 1..Len(PairsOf(doc)) :
            /\ IsDict(PairsOf(doc)[j][2])
            /\ InAllowedTypes(Get(PairsOf(doc)[j][2], "x-wv-type"))}}

\* Every tag written on a property of some document, any string included.
TagsWritten ==
    UNION {{Get(PairsOf(doc)[i][2], "x-wv-type").s : i \in
              {j \in 1..Len(PairsOf(doc)) :
                  /\ IsDict(PairsOf(doc)[j][2])
                  /\ Get(PairsOf(doc)[j][2], "x-wv-type").k = "str"}}
           : doc \in Documents}

\* C23: the registry holds exactly one contract per FieldType: the keys of
\* TYPE_CONTRACTS are the entries of WV_ALLOWED_TYPES, each listed once, and
\* are the keys of WV_TYPE_DESCRIPTIONS; so for a tag that passed the
\* membership check, TYPE_CONTRACTS.get(x_type, {}) is the tag's own contract
\* and never the empty default.
C23_OneContractPerFieldType ==
    /\ DOMAIN registry.TYPE_CONTRACTS = AllowedTypeSet
    /\ DOMAIN registry.WV_TYPE_DESCRIPTIONS = AllowedTypeSet
    /\ Cardinality(AllowedTypeSet) = Len(registry.WV_ALLOWED_TYPES)
    /\ \A t \in TagsWritten \cup AllowedTypeSet :
          InAllowedTypes(JStr(t))
             => /\ ContractOf(t) # JObj(<<>>)
                /\ ContractOf(t) = TYPE_CONTRACTS[t]
    /\ \A t \in CheckedTags(schema) :
          /\ t \in DOMAIN registry.TYPE_CONTRACTS
          /\ ContractOf(t) # JObj(<<>>)

\* C23's case: a validated document with a property tagged Location and a
\* property whose tag is outside the list; the contract fetched for the first
\* is Location's own, with its required list, and only the second one is a
\* violation.
C23_Witness ==
    /\ Validated
    /\ Len(PairsOf(schema)) = 2
    /\ PairsOf(schema)[1][2] = SiteDescriptor
    /\ CheckedTags(schema) = {"Location"}
    /\ Get(ContractOf("Location"), "required") = LatLon
    /\ PairsOf(schema)[2][2] = With(StringSchema, "x-wv-type", JStr("Slider"))
    /\ ~InAllowedTypes(JStr("Slider"))
    /\ ContractOf("Slider") = JObj(<<>>)
    /\ vresult.violations = << "Property 'field2' has invalid x-wv-type 'Slider'" >>

\* =========================================================================
\* Properties of generate_schema, checked under Spec
\* =========================================================================

Returned == pc = "returned"

\* What the loop makes of a response: it parses or not, validates or not.
\* An unparsable text is one json.loads answers with a JSONDecodeError; on
\* an undecodable one json.loads raises another exception.
Unparsable(out) ==
    /\ out.kind = "text"
    /\ IsInstance(ParsedOf(out).exc_type, "json.decoder.JSONDecodeError")
Undecodable(out) ==
    /\ out.kind = "text"
    /\ ~ParsedOf(out).ok
    /\ ~IsInstance(ParsedOf(out).exc_type, "json.decoder.JSONDecodeError")
InvalidJson(out) ==
    /\ out.kind = "text"
    /\ ParsedOf(out).ok
    /\ ~validate_generated_schema(ParsedOf(out).doc).valid
ValidJson(out) ==
    /\ out.kind = "text"
    /\ ParsedOf(out).ok
    /\ validate_generated_schema(ParsedOf(out).doc).valid

\* The last completion call made.
LastCall == log[Len(log)]

\* The outer attempts a completion call was made on.
AttemptsMade == {log[i].attempt : i \in 1..Len(log)}

\* After the i-th completion call the loop went on to the next outer attempt
\* (log numbers the attempts from 1, the loop variable from 0).
ProceedsToNextAttempt(i) ==
    IF i = Len(log)
    THEN pc = "base" /\ attempt = log[i].attempt
    ELSE log[i + 1].call = "base" /\ log[i + 1].attempt = log[i].attempt + 1

\* C3: a document is returned only if it is the one parsed from a response of
\* this call that validated; the first response that validates ends the call,
\* and no completion call follows it.
C3_OnlyTheValidatedDocument ==
    /\ \A i \in 1..Len(log) :
          ValidJson(log[i].out)
          => /\ i = Len(log)
             /\ Returned
             /\ ret.schema = ParsedOf(log[i].out).doc
    /\ (Returned /\ ret.schema # None)
          => /\ Len(log) > 0
             /\ ValidJson(LastCall.out)
             /\ ret.schema = ParsedOf(LastCall.out).doc

\* C3's case: after an invalid base response and an invalid escalated one, the
\* second attempt's escalated response validates and is returned.
C3_Witness ==
    /\ Returned
    /\ Len(log) = 4
    /\ LastCall.call = "escalated"
    /\ ret.schema = DocumentTexts["<B>"]
    /\ InvalidJson(log[1].out) /\ InvalidJson(log[2].out) /\ InvalidJson(log[3].out)

\* C4: whatever the completion service does, generate_schema returns a
\* (document-or-absent, status) pair; no exception leaves it.
C4_AlwaysAPair ==
    /\ pc # "raised"
    /\ Returned => /\ ret.status # ""
                   /\ ret.schema = None \/ IsDict(ret.schema)

\* C4's case: a call that saw an invalid document, an unparsable text and a
\* service error, and on its last attempt a text on which json.loads raised
\* a RecursionError; it returned absent with the text of that error.
C4_Witness ==
    /\ Returned
    /\ ret.schema = None
    /\ \E i \in 1..Len(log) : log[i].out.kind = "raise"
    /\ \E i \in 1..Len(log) : Unparsable(log[i].out) /\ log[i].out.text # <<>>
    /\ \E i \in 1..Len(log) : InvalidJson(log[i].out)
    /\ Undecodable(LastCall.out)
    /\ IsInstance(ParsedOf(LastCall.out).exc_type, "builtins.RecursionError")
    /\ ret.status = "Error on attempt 3: maximum recursion depth exceeded while "
                    \o "decoding a JSON array from a unicode string"

\* str(e) of the JSONDecodeErrors json.loads raises on the response texts.
ParseErrorTexts ==
    {p[2].err : p \in {q \in Parsed :
                          IsInstance(q[2].exc_type, "json.decoder.JSONDecodeError")}}

MalformedStatus(n, e) == "Invalid JSON generated on attempt " \o ToString(n) \o ": " \o e

\* The status of attempt n ended by an exception that is no JSONDecodeError:
\* a failure of the completion service, or of json.loads.
ServiceErrorStatus(n, e) == "Error on attempt " \o ToString(n) \o ": " \o e

\* The status is that of a malformed-response failure.
IsMalformedFailure ==
    \E n \in 0..(max_retries + 1), e \in ParseErrorTexts : ret.status = MalformedStatus(n, e)

\* The i-th completion call is a base call answered with the empty text.
EmptyBase(i) == log[i].call = "base" /\ log[i].out = Returns(<<>>)

\* C5 as claimed: any unparsable text, the empty one included, on an attempt
\* that is not the last makes the loop go on to the next attempt.
C5_UnparsableAlwaysRetried ==
    \A i \in 1..Len(log) :
        (Unparsable(log[i].out) /\ log[i].attempt < max_retries)
        => ProceedsToNextAttempt(i)

\* C5 as amended: an unparsable text that is not an empty base response, on an
\* attempt that is not the last, makes the loop go on to the next attempt; an
\* empty base response ends the call at once with its own status; a
\* malformed-response failure is returned only on the last of max_retries
\* attempts, with the parse error of the last response. A text on which
\* json.loads raises an exception that is no JSONDecodeError is retried in
\* the same way, and on the last attempt its status is "Error on attempt N: "
\* with the text of the exception, no malformed-response failure.
C5_UnparsableRetriedUnlessEmptyBase ==
    /\ \A i \in 1..Len(log) :
          (Unparsable(log[i].out) /\ ~EmptyBase(i) /\ log[i].attempt < max_retries)
          => ProceedsToNextAttempt(i)
    /\ \A i \in 1..Len(log) :
          Undecodable(log[i].out)
          => IF log[i].attempt < max_retries
             THEN ProceedsToNextAttempt(i)
             ELSE /\ i = Len(log)
                  /\ Returned
                  /\ ~IsMalformedFailure
                  /\ ret = [schema |-> None,
                            status |-> ServiceErrorStatus(max_retries,
                                                          ParsedOf(log[i].out).err)]
    /\ \A i \in 1..Len(log) :
          EmptyBase(i)
          => /\ i = Len(log)
             /\ Returned
             /\ ret = [schema |-> None, status |-> "Empty response from Gemini API"]
    /\ (Returned /\ IsMalformedFailure)
          => /\ ret.schema = None
             /\ AttemptsMade = 1..max_retries
             /\ LastCall.attempt = max_retries
             /\ Unparsable(LastCall.out)
             /\ ret.status = MalformedStatus(max_retries, ParsedOf(LastCall.out).err)
    /\ (Returned /\ Len(log) > 0 /\ Unparsable(LastCall.out) /\ ~EmptyBase(Len(log)))
          => IsMalformedFailure

\* C5's case: two unparsable texts retried, the third returned as the
\* failure, with its parse error and not the one of the first.
C5_Witness ==
    /\ Returned
    /\ max_retries = 3
    /\ Len(log) = 3
    /\ \A i \in 1..3 : Unparsable(log[i].out) /\ log[i].out.text # <<>>
    /\ ParsedOf(log[1].out).err = "Extra data: line 1 column 292 (char 291)"
    /\ ParsedOf(log[3].out).err = "Expecting value: line 1 column 1 (char 0)"
    /\ ret.status = MalformedStatus(3, "Expecting value: line 1 column 1 (char 0)")

\* Every outer attempt was made and ended with a response that parsed and did
\* not validate.
EveryAttemptEndsInvalid ==
    /\ max_retries > 0
    /\ AttemptsMade = 1..max_retries
    /\ \A i \in 1..Len(log) :
          (i = Len(log) \/ log[i + 1].attempt # log[i].attempt) => InvalidJson(log[i].out)

\* The validator's messages for the invalid documents of this call.
ValidatorMessages ==
    {validate_generated_schema(ParsedOf(log[i].out).doc).message :
        i \in {j \in 1..Len(log) : InvalidJson(log[j].out)}}

\* C6 as claimed: when every attempt ends in a validation failure, the status
\* returned is the validator's semicolon-joined list of messages.
C6_StatusIsValidatorMessages ==
    (Returned /\ EveryAttemptEndsInvalid) => ret.status \in ValidatorMessages

\* C6 as amended: when every attempt ends in a validation failure, the status
\* returned is the fixed message that names max_retries; the validator's
\* messages are not in it.
C6_StatusIsExhaustionMessage ==
    (Returned /\ EveryAttemptEndsInvalid)
    => /\ ret.schema = None
       /\ ret.status = "Failed to generate valid schema after "
                       \o ToString(max_retries) \o " attempts"
       /\ ret.status \notin ValidatorMessages

\* C6's case: three attempts, each ended by an invalid document whose
\* violations are two, semicolon-joined by the validator.
C6_Witness ==
    /\ Returned
    /\ max_retries = 3
    /\ EveryAttemptEndsInvalid
    /\ LastCall.out = Returns(<< "<I>" >>)
    /\ Len(validate_generated_schema(DocumentTexts["<I>"]).violations) = 2

\* C7: when every completion call, base and escalated, is answered with
\* parseable schema-invalid JSON, the call returns absent only after all
\* max_retries attempts, and the message names max_retries.
C7_InvalidOnEveryCall ==
    (Returned /\ \A i \in 1..Len(log) : InvalidJson(log[i].out))
    => /\ ret.schema = None
       /\ ret.status = "Failed to generate valid schema after "
                       \o ToString(max_retries) \o " attempts"
       /\ AttemptsMade = 1..max_retries
       /\ max_retries > 0 => Len(log) = 2 * max_retries - 1

\* C7's case: max_retries = 3, five invalid responses.
C7_Witness ==
    /\ Returned
    /\ max_retries = 3
    /\ Len(log) = 5
    /\ \A i \in 1..5 : InvalidJson(log[i].out)

\* C8: after k - 1 attempts that failed to parse, a valid response on attempt
\* k gives that document and a success status that names k.
C8_SuccessOnAttemptK ==
    (/\ Returned
     /\ Len(log) > 0
     /\ \A i \in 1..(Len(log) - 1) : Unparsable(log[i].out) \/ Undecodable(log[i].out)
     /\ ValidJson(LastCall.out))
    => /\ ret.schema = ParsedOf(LastCall.out).doc
       /\ ret.status = "Schema generated successfully on attempt " \o ToString(Len(log))
       /\ LastCall.attempt = Len(log)
       /\ Len(log) <= max_retries

\* C8's case: max_retries = 3, an unparsable text on attempt 1, a text on
\* which json.loads raises a RecursionError on attempt 2, a valid document on
\* attempt 3.
C8_Witness ==
    /\ Returned
    /\ max_retries = 3
    /\ Len(log) = 3
    /\ Unparsable(log[1].out) /\ Undecodable(log[2].out)
    /\ ValidJson(log[3].out)
    /\ ret.status = "Schema generated successfully on attempt 3"

\* The i-th completion call raised.
ServiceRaised(i) == log[i].out.kind = "raise"

\* C16 as claimed: a completion call that raises on an attempt that is not
\* the last makes the loop go on to the next attempt; one that raises on the
\* last attempt makes the call return absent with the service error's text,
\* verbatim, as the status.
C16_StatusIsErrorText ==
    \A i \in 1..Len(log) :
        ServiceRaised(i) =>
            IF log[i].attempt < max_retries
            THEN ProceedsToNextAttempt(i)
            ELSE /\ i = Len(log)
                 /\ Returned
                 /\ ret = [schema |-> None, status |-> log[i].out.err]

\* C16 as amended: the same, but the status on the last attempt is "Error on
\* attempt N: " followed by the service error's text, verbatim, N being the
\* number of the last attempt.
C16_StatusCarriesErrorText ==
    \A i \in 1..Len(log) :
        ServiceRaised(i) =>
            IF log[i].attempt < max_retries
            THEN ProceedsToNextAttempt(i)
            ELSE /\ i = Len(log)
                 /\ Returned
                 /\ ret = [schema |-> None,
                           status |-> ServiceErrorStatus(max_retries, log[i].out.err)]

\* C16's case: the service raises on the base call of attempt 1, on the
\* escalated call of attempt 2 and on the base call of attempt 3, the last.
C16_Witness ==
    /\ Returned
    /\ max_retries = 3
    /\ Len(log) = 4
    /\ ServiceRaised(1) /\ log[1].call = "base"
    /\ InvalidJson(log[2].out)
    /\ ServiceRaised(3) /\ log[3].call = "escalated" /\ log[3].attempt = 2
    /\ ServiceRaised(4) /\ log[4].attempt = 3
    /\ ret.status = "Error on attempt 3: 503 Service Unavailable"

\* The text of the document named j between an opening fence and a closing
\* fence, each on a line of its own.
Fenced(opening, j) == opening \o << "\n", j, "\n" >> \o Fence

\* C17 as claimed: on the base call and on the escalated call, the cleaned
\* form of a JSON text wrapped in fences, the opening one bare or tagged
\* json, is the JSON text itself, which then parses to its document.
C17_FencedTextCleansToJson ==
    \A i \in 1..Len(log) :
        \A j \in DOMAIN DocumentTexts :
            (log[i].out.kind = "text"
             /\ log[i].out.text \in {Fenced(Fence, j), Fenced(FenceJson, j)})
            => /\ CleanResponse(log[i].out.text) = << j >>
               /\ ParsedOf(log[i].out).ok
               /\ ParsedOf(log[i].out).doc = DocumentTexts[j]

\* The completion calls of outer attempt n, in the order they were made.
CallsOfAttempt(n) ==
    LET made == SelectSeq(log, LAMBDA c : c.attempt = n)
    IN  [i \in 1..Len(made) |-> made[i].call]

\* The base response of the attempt under way parsed and did not validate,
\* and the attempt is not the last.
EscalationDue(i) ==
    /\ log[i].call = "base"
    /\ InvalidJson(log[i].out)
    /\ log[i].attempt < max_retries

\* C19: each outer attempt makes one base call and then at most one escalated
\* call; the escalated call is made only when, and whenever, the base response
\* of the same attempt parsed and failed validation on an attempt that is not
\* the last; when the escalated response fails validation too, the loop goes
\* on to the next outer attempt.
C19_AtMostOneEscalationPerAttempt ==
    /\ \A n \in AttemptsMade :
          CallsOfAttempt(n) \in { << "base" >>, << "base", "escalated" >> }
    /\ AttemptsMade \subseteq 1..max_retries
    /\ \A i \in 1..Len(log) :
          LET due == EscalationDue(i) IN
          /\ (i < Len(log) /\ log[i + 1].call = "escalated")
               => /\ log[i + 1].attempt = log[i].attempt
                  /\ due
          /\ (i = Len(log) /\ pc = "escalated") => due
          /\ due
               => IF i = Len(log)
                  THEN pc = "escalated" /\ attempt + 1 = log[i].attempt
                  ELSE log[i + 1].call = "escalated"
                       /\ log[i + 1].attempt = log[i].attempt
    /\ Len(log) > 0 => log[1].call = "base"
    /\ pc = "escalated" => Len(log) > 0
    /\ \A i \in 1..Len(log) :
          (log[i].call = "escalated" /\ InvalidJson(log[i].out))
          => ProceedsToNextAttempt(i)

\* C19's case: attempt 1 makes a base and an escalated call, both answered
\* with invalid documents; attempt 2 makes a base call only, answered with an
\* unparsable text; attempt 3, the last, makes a base call only, answered
\* with an invalid document.
C19_Witness ==
    /\ Returned
    /\ max_retries = 3
    /\ Len(log) = 4
    /\ CallsOfAttempt(1) = << "base", "escalated" >>
    /\ CallsOfAttempt(2) = << "base" >>
    /\ CallsOfAttempt(3) = << "base" >>
    /\ InvalidJson(log[1].out) /\ InvalidJson(log[2].out)
    /\ Unparsable(log[3].out)
    /\ InvalidJson(log[4].out)

\* The index in log of the last completion call of outer attempt n.
LastCallOfAttempt(n) ==
    CHOOSE i \in 1..Len(log) :
        /\ log[i].attempt = n
        /\ i = Len(log) \/ log[i + 1].attempt # n

\* The sleeps made at the end of outer attempt n.
SleepsAfter(n) == SelectSeq(sleeps, LAMBDA z : z.attempt = n)

\* Outer attempt n ended in a parse failure: json.loads raised a
\* JSONDecodeError on its last response (an empty base response never
\* reaches json.loads).
EndedInParseFailure(n) ==
    /\ Unparsable(log[LastCallOfAttempt(n)].out)
    /\ ~EmptyBase(LastCallOfAttempt(n))

\* Outer attempt n ended in a failure of the completion service.
EndedInServiceError(n) == ServiceRaised(LastCallOfAttempt(n))

\* Outer attempt n ended in an exception of json.loads that is no
\* JSONDecodeError.
EndedInOtherLoadsError(n) == Undecodable(log[LastCallOfAttempt(n)].out)

\* Outer attempt n ended in a validation failure.
EndedInValidationFailure(n) == InvalidJson(log[LastCallOfAttempt(n)].out)

\* C20 as claimed: a sleep is made only directly after a parse failure (an
\* exception of json.loads, of any class), never after a validation failure
\* nor after any other kind of failed attempt.
C20_SleepOnlyAfterParseFailure ==
    \A k \in 1..Len(sleeps) :
        /\ sleeps[k].attempt \in AttemptsMade
        /\ EndedInParseFailure(sleeps[k].attempt)
           \/ EndedInOtherLoadsError(sleeps[k].attempt)

\* C20 as amended: one sleep is made at the end of every attempt but the last
\* that ended in a parse failure or in another exception, of the completion
\* service or of json.loads, and no other sleep is made: none after a
\* validation failure, none after an empty base response, none on the last
\* attempt.
C20_SleepAfterParseOrServiceFailure ==
    /\ \A k \in 1..Len(sleeps) : sleeps[k].attempt \in AttemptsMade
    /\ \A n \in AttemptsMade :
          LET parse == EndedInParseFailure(n)
              service == EndedInServiceError(n) \/ EndedInOtherLoadsError(n)
          IN  /\ (n < max_retries /\ parse)
                   => SleepsAfter(n) = << [attempt |-> n, after |-> "JSONDecodeError"] >>
              /\ (n < max_retries /\ service)
                   => SleepsAfter(n) = << [attempt |-> n, after |-> "Exception"] >>
              /\ (n = max_retries \/ ~(parse \/ service))
                   => SleepsAfter(n) = <<>>
              /\ SleepsAfter(n) # <<>> => ~EndedInValidationFailure(n)

\* C20's case: attempt 1 ends in a validation failure, of the base and of the
\* escalated response, with no sleep; attempt 2 ends in a service error and a
\* sleep; attempt 3, the last, ends in a parse failure with no sleep.
C20_Witness ==
    /\ Returned
    /\ max_retries = 3
    /\ AttemptsMade = 1..3
    /\ EndedInValidationFailure(1) /\ CallsOfAttempt(1) = << "base", "escalated" >>
    /\ EndedInServiceError(2)
    /\ EndedInParseFailure(3)
    /\ sleeps = << [attempt |-> 2, after |-> "Exception"] >>

\* =========================================================================
\* Termination of generate_schema, checked under SpecFair
\* =========================================================================

\* The most completion calls a call with max_retries = mr makes.
MostCalls(mr) == IF mr = 0 THEN 0 ELSE 2 * mr - 1

\* The call made at most max_retries outer attempts, numbered from 1 without
\* a gap, and at most 2 * max_retries - 1 completion calls.
WithinBounds ==
    /\ Cardinality(AttemptsMade) <= max_retries
    /\ AttemptsMade = 1..Cardinality(AttemptsMade)
    /\ Len(log) <= MostCalls(max_retries)

\* C22: for every max_retries from 0 on and every sequence of outcomes of the
\* completion service, each call returning or raising, generate_schema
\* eventually returns, and it makes at most max_retries outer attempts and at
\* most 2 * max_retries - 1 completion calls, none when max_retries is 0.
C22_ReturnsWithinBounds ==
    /\ [](WithinBounds /\ pc # "raised")
    /\ \A mr \in 0..MaxRetries :
          (pc # "idle" /\ max_retries = mr)
          ~> (Returned /\ max_retries = mr /\ WithinBounds)

\* C22's case: max_retries = 3, five completion calls, the most there can
\* be, the last of which raises on the third attempt.
C22_Witness ==
    /\ Returned
    /\ max_retries = 3
    /\ Cardinality(AttemptsMade) = 3
    /\ Len(log) = MostCalls(3)
    /\ ServiceRaised(5)
    /\ ret.status = ServiceErrorStatus(3, "503 Service Unavailable")

====
